---- MODULE Spec2Model ----
(***************************************************************************)
(* Model of the dtype resolution code of py-polars:                        *)
(*   polars/datatypes/convert.py  (database type-name inference, the       *)
(*       short-form parser, Python type inference behind its cache,        *)
(*       dtype_to_py_type)                                                 *)
(*   polars/io/database.py        (ConnectionExecutor: type overrides,     *)
(*       cursor ownership, execute and to_polars)                          *)
(* Python strings are TLA+ strings; a character is a string of length 1.   *)
(* A call's outcome is a record [exc, val]: exc = "" for a normal return   *)
(* (val is the returned dtype or NoneVal), otherwise the exception's name. *)
(***************************************************************************)
EXTENDS Integers, Sequences, FiniteSets, TLC

VARIABLES
    pc,               \* position of the modelled caller
    name,             \* type-name string being assembled / classified
    toks,             \* the fragments the name was assembled from
    raise_unmatched,  \* keyword argument of the classifier call
    outcome,          \* outcome of the classifier call
    frames,           \* the call stack of the classifier, innermost call last
    description,      \* cursor description: sequence of [nm, desc]
    user_overrides,   \* the schema_overrides mapping as the caller passed it
    schema_overrides, \* the mapping _inject_type_overrides writes into
    caller_mapping,   \* the caller's mapping object, as it stands
    col,              \* index of the next column of the description
    dtype,            \* the loop-carried local `dtype` of _inject_type_overrides
    connection,       \* the object the caller hands to ConnectionExecutor
    cx,               \* the ConnectionExecutor: driver_name, cursor,
                      \* can_close_cursor, result
    closed,           \* the objects close() was called on
    call,             \* the last call on the executor, its arguments and error
    gen,              \* a repeated-fetch generator and the cursor it reads
    arg,              \* the dtype or type spec a conversion is applied to
    cache,            \* the lru_cache of _map_py_type_to_dtype, oldest first
    ncalls,           \* number of calls made after the warm-up
    series            \* a series under construction from Python values:
                      \* values, dtype, strict, result, error

vars == <<pc, name, toks, raise_unmatched, outcome, frames, description,
          user_overrides, schema_overrides, caller_mapping, col, dtype,
          connection, cx, closed, call, gen, arg, cache, ncalls, series>>

typename_vars == <<name, toks, raise_unmatched, outcome, frames>>

inject_vars ==
    <<description, user_overrides, schema_overrides, caller_mapping, col, dtype>>

executor_vars == <<connection, cx, closed, call, gen>>

convert_vars == <<arg, cache, ncalls, series>>

----------------------------------------------------------------------------
(* Python str primitives                                                   *)

Char(s, i) == SubSeq(s, i, i)

Last(s) == SubSeq(s, Len(s), Len(s))

startswith(s, p) == Len(p) <= Len(s) /\ SubSeq(s, 1, Len(p)) = p

endswith(s, p) == Len(p) <= Len(s) /\ SubSeq(s, Len(s) - Len(p) + 1, Len(s)) = p

\* str.find, 1-based; 0 when the substring does not occur (Python: -1)
find(s, p) ==
    LET hits == {i \in 1..(Len(s) - Len(p) + 1) : SubSeq(s, i, i + Len(p) - 1) = p}
    IN IF hits = {} THEN 0 ELSE CHOOSE i \in hits : \A j \in hits : i <= j

\* the `in` operator on str
contains(s, p) ==
    \E i \in 1..(Len(s) - Len(p) + 1) : SubSeq(s, i, i + Len(p) - 1) = p

\* str.replace(old, new, 1)
replace_first(s, old, new) ==
    LET i == find(s, old)
    IN IF i = 0 THEN s
       ELSE SubSeq(s, 1, i - 1) \o new \o SubSeq(s, i + Len(old), Len(s))

\* str.replace(old, new): every non-overlapping occurrence, left to right
RECURSIVE replace(_, _, _)
replace(s, old, new) ==
    LET i == find(s, old)
    IN IF i = 0 THEN s
       ELSE SubSeq(s, 1, i - 1) \o new \o replace(SubSeq(s, i + Len(old), Len(s)), old, new)

\* str.split(sep)[0]
split_first(s, sep) ==
    LET i == find(s, sep) IN IF i = 0 THEN s ELSE SubSeq(s, 1, i - 1)

\* number of occurrences of the one-character string c
count(s, c) == Cardinality({i \in 1..Len(s) : Char(s, i) = c})

UpperCase == [a |-> "A", b |-> "B", c |-> "C", d |-> "D", e |-> "E", f |-> "F",
              g |-> "G", h |-> "H", i |-> "I", j |-> "J", k |-> "K", l |-> "L",
              m |-> "M", n |-> "N", o |-> "O", p |-> "P", q |-> "Q", r |-> "R",
              s |-> "S", t |-> "T", u |-> "U", v |-> "V", w |-> "W", x |-> "X",
              y |-> "Y", z |-> "Z"]

\* str.upper(): the full case mapping, under which the sharp s becomes two
\* letters
RECURSIVE upper(_)
upper(s) ==
    IF s = "" THEN ""
    ELSE (IF Head(s) \in DOMAIN UpperCase THEN UpperCase[Head(s)]
          ELSE IF Head(s) = "ß" THEN "SS"
          ELSE Head(s))
         \o upper(Tail(s))

Digits == {"0", "1", "2", "3", "4", "5", "6", "7", "8", "9"}

Letters == {"A", "B", "C", "D", "E", "F", "G", "H", "I", "J", "K", "L", "M",
            "N", "O", "P", "Q", "R", "S", "T", "U", "V", "W", "X", "Y", "Z"}
           \cup DOMAIN UpperCase

\* the regular expression class \w
WordChars == Letters \cup Digits \cup {"_"}

DigitValue == [c \in Digits |->
    CASE c = "0" -> 0 [] c = "1" -> 1 [] c = "2" -> 2 [] c = "3" -> 3
      [] c = "4" -> 4 [] c = "5" -> 5 [] c = "6" -> 6 [] c = "7" -> 7
      [] c = "8" -> 8 [] c = "9" -> 9]

\* str.isdigit
isdigit(s) == s # "" /\ \A i \in 1..Len(s) : Char(s, i) \in Digits

\* value of a string of decimal digits
RECURSIVE digits_value(_)
digits_value(s) ==
    IF s = "" THEN 0
    ELSE 10 * digits_value(SubSeq(s, 1, Len(s) - 1)) + DigitValue[Last(s)]

\* str.strip() restricted to the blank
RECURSIVE strip(_)
strip(s) ==
    IF s # "" /\ Head(s) = " " THEN strip(Tail(s))
    ELSE IF s # "" /\ Last(s) = " " THEN strip(SubSeq(s, 1, Len(s) - 1))
    ELSE s

\* whether int(s) succeeds: blanks around, digits with single inner underscores
int_ok(s) ==
    LET t == strip(s)
    IN /\ t # ""
       /\ \A i \in 1..Len(t) : Char(t, i) \in Digits \cup {"_"}
       /\ Head(t) \in Digits /\ Last(t) \in Digits
       /\ ~contains(t, "__")

int_value(s) == digits_value(replace(strip(s), "_", ""))

\* re.sub(r"\d", "", s)
RECURSIVE sub_digits(_)
sub_digits(s) ==
    IF s = "" THEN ""
    ELSE (IF Head(s) \in Digits THEN "" ELSE Head(s)) \o sub_digits(Tail(s))

\* re.sub(r"\W", "", s)
RECURSIVE sub_nonword(_)
sub_nonword(s) ==
    IF s = "" THEN ""
    ELSE (IF Head(s) \in WordChars THEN Head(s) ELSE "") \o sub_nonword(Tail(s))

\* re.sub(r"\WOF\W", "", s): leftmost non-overlapping matches
RECURSIVE sub_of(_)
sub_of(s) ==
    IF Len(s) < 4 THEN s
    ELSE IF /\ Head(s) \notin WordChars
            /\ SubSeq(s, 2, 3) = "OF"
            /\ Char(s, 4) \notin WordChars
         THEN sub_of(SubSeq(s, 5, Len(s)))
         ELSE Head(s) \o sub_of(Tail(s))

\* re.search(r"\([\w,: ]+\)$", s)
search_paren_modifier(s) ==
    /\ Len(s) >= 3
    /\ Last(s) = ")"
    /\ \E i \in 1..(Len(s) - 2) :
          /\ Char(s, i) = "("
          /\ \A j \in (i + 1)..(Len(s) - 1) : Char(s, j) \in WordChars \cup {",", ":", " "}

\* re.search(r"\[[\w,\]\[: ]+]$", s)
search_bracket_modifier(s) ==
    /\ Len(s) >= 3
    /\ Last(s) = "]"
    /\ \E i \in 1..(Len(s) - 2) :
          /\ Char(s, i) = "["
          /\ \A j \in (i + 1)..(Len(s) - 1) :
                Char(s, j) \in WordChars \cup {",", "]", "[", ":", " "}

----------------------------------------------------------------------------
(* Logical types (polars.datatypes) and call outcomes                      *)

DT(b) == [base |-> b, params |-> <<>>]

NoneVal == DT("None")
Int8 == DT("Int8")
Int16 == DT("Int16")
Int32 == DT("Int32")
Int64 == DT("Int64")
UInt8 == DT("UInt8")
UInt16 == DT("UInt16")
UInt32 == DT("UInt32")
UInt64 == DT("UInt64")
Float32 == DT("Float32")
Float64 == DT("Float64")
String == DT("String")
Binary == DT("Binary")
Boolean == DT("Boolean")
Date == DT("Date")
Time == DT("Time")

\* the classes Decimal and Duration, used without parameters
Decimal == DT("Decimal")
Duration == DT("Duration")

DecimalOf(prec, scale) == [base |-> "Decimal", params |-> <<prec, scale>>]
Datetime(time_unit) == [base |-> "Datetime", params |-> <<time_unit>>]
List(inner) == [base |-> "List", params |-> <<inner>>]

INTEGER_DTYPES == {Int8, Int16, Int32, Int64, UInt8, UInt16, UInt32, UInt64}
UNSIGNED_INTEGER_DTYPES == {UInt8, UInt16, UInt32, UInt64}

\* `dtype == cls` for a dtype class cls: an instance equals its own class
eq_class(d, cls) == d.base = cls.base

Return(d) == [exc |-> "", val |-> d]
Raise(e) == [exc |-> e, val |-> NoneVal]

----------------------------------------------------------------------------
(* polars/datatypes/convert.py                                             *)

LowerCase == [A |-> "a", B |-> "b", C |-> "c", D |-> "d", E |-> "e", F |-> "f",
              G |-> "g", H |-> "h", I |-> "i", J |-> "j", K |-> "k", L |-> "l",
              M |-> "m", N |-> "n", O |-> "o", P |-> "p", Q |-> "q", R |-> "r",
              S |-> "s", T |-> "t", U |-> "u", V |-> "v", W |-> "w", X |-> "x",
              Y |-> "y", Z |-> "z"]

RECURSIVE lower(_)
lower(s) ==
    IF s = "" THEN ""
    ELSE (IF Head(s) \in DOMAIN LowerCase THEN LowerCase[Head(s)] ELSE Head(s))
         \o lower(Tail(s))

\* _timeunit_from_precision for a str argument; "" stands for None
timeunit_from_precision(precision) ==
    IF precision = "" THEN ""
    ELSE IF isdigit(precision)
    THEN LET p == digits_value(precision)
             c == ((p + 2) \div 3) * 3
             n == IF c < 3 THEN 3 ELSE IF c > 9 THEN 9 ELSE c
         IN CASE n = 3 -> "ms" [] n = 6 -> "us" [] n = 9 -> "ns"
    ELSE IF lower(precision) \in {"s", "ms", "us", "ns"}
    THEN (IF lower(precision) = "s" THEN "ms" ELSE lower(precision))
    ELSE ""  \* str / 3 raises TypeError, which is caught

\* _integer_dtype_from_nbits; bits = 0 stands for None
integer_dtype_from_nbits(bits, unsigned, default) ==
    CASE bits = 8 /\ ~unsigned -> Int8
      [] bits = 8 /\ unsigned -> UInt8
      [] bits = 16 /\ ~unsigned -> Int16
      [] bits = 16 /\ unsigned -> UInt16
      [] bits = 32 /\ ~unsigned -> Int32
      [] bits = 32 /\ unsigned -> UInt32
      [] bits = 64 /\ ~unsigned -> Int64
      [] bits = 64 /\ unsigned -> UInt64
      [] OTHER -> default

\* result of one classification rule: the value left in `dtype`, an early
\* `return None`, or a raised exception
Assigned(d) == [exc |-> "", val |-> d, returned |-> FALSE]
ReturnedNone == [exc |-> "", val |-> NoneVal, returned |-> TRUE]
Raised(e) == [exc |-> e, val |-> NoneVal, returned |-> FALSE]

\* value.upper().replace("TYPE", "")
normalise(value) == replace(upper(value), "TYPE", "")

\* the optional type modifier and the value without it
extract_modifier(value) ==
    IF search_paren_modifier(value)
    THEN [modifier |-> SubSeq(value, find(value, "(") + 1, Len(value) - 1),
          value |-> split_first(value, "(")]
    ELSE IF \/ /\ ~(startswith(value, "<") \/ startswith(value, ">"))
               /\ search_bracket_modifier(value)
            \/ \E sfx \in {"[S]", "[MS]", "[US]", "[NS]"} : endswith(value, sfx)
    THEN [modifier |-> SubSeq(value, find(value, "[") + 1, Len(value) - 1),
          value |-> split_first(value, "[")]
    ELSE [modifier |-> "", value |-> value]

array_aliases == {"ARRAY", "LIST", "[]"}

is_array(value) ==
    \E a \in array_aliases : endswith(value, a) \/ startswith(value, a)

\* variant: the aliases are left in the value
strip_array_aliases_kept(value) == value

\* for a in array_aliases: value = value.replace(a, "", 1) if value else ""
strip_array_aliases(value) ==
    replace_first(replace_first(replace_first(value, "ARRAY", ""), "LIST", ""), "[]", "")

\* variant: the parenthesised modifier of the element type is dropped
array_inner_text_without_modifier(value) ==
    IF Head(value) = "<" /\ Last(value) = ">"
    THEN SubSeq(value, 2, Len(value) - 1)
    ELSE sub_nonword(split_first(sub_of(value), "("))

\* the text handed to the recursive call for the element type
array_inner_text(value) ==
    IF Head(value) = "<" /\ Last(value) = ">"
    THEN SubSeq(value, 2, Len(value) - 1)
    ELSE sub_nonword(sub_of(value))

\* `if nested: dtype = List(nested)` applied to the outcome of a recursive call
list_of(r) ==
    IF r.exc # "" THEN Raised(r.exc)
    ELSE IF r.val.base # "None" THEN Assigned(List(r.val))
    ELSE Assigned(NoneVal)

RECURSIVE infer_dtype_from_database_typename(_, _)

array_rule(value, modifier) ==
    LET v == strip_array_aliases(value)
    IN IF v = "" /\ modifier # ""
       THEN list_of(infer_dtype_from_database_typename(modifier, FALSE))
       ELSE IF v = "" THEN Raised("IndexError")  \* value[0] of the empty string
       ELSE LET inner == infer_dtype_from_database_typename(array_inner_text(v), FALSE)
            IN IF inner.exc = "" /\ inner.val.base = "None" /\ modifier # ""
               THEN list_of(infer_dtype_from_database_typename(modifier, FALSE))
               ELSE list_of(inner)

is_float(value) ==
    startswith(value, "FLOAT") \/ contains(value, "DOUBLE") \/ value = "REAL"

float_rule(value, modifier) ==
    IF \/ value = "FLOAT4"
       \/ endswith(value, "16") \/ endswith(value, "32")
       \/ modifier \in {"16", "32"}
    THEN Float32
    ELSE Float64

\* variant: INT anywhere in the name
is_integer_anywhere(value) ==
    /\ ~contains(value, "INTERVAL")
    /\ contains(value, "INT") \/ contains(value, "SERIAL") \/ value = "ROWID"

is_integer(value) ==
    /\ ~contains(value, "INTERVAL")
    /\ \/ startswith(value, "INT") \/ startswith(value, "UINT")
       \/ startswith(value, "UNSIGNED")
       \/ endswith(value, "INT") \/ endswith(value, "SERIAL")
       \/ contains(value, "INTEGER")
       \/ value = "ROWID"

\* variant: every size test is a substring test
integer_name_bits_substring(value) ==
    IF contains(value, "LARGE") \/ contains(value, "BIG") \/ contains(value, "INT8") THEN 64
    ELSE IF contains(value, "MEDIUM") \/ contains(value, "INT4") \/ contains(value, "SERIAL")
    THEN 32
    ELSE IF contains(value, "SMALL") \/ contains(value, "INT2") THEN 16
    ELSE IF contains(value, "TINY") THEN 8
    ELSE 0

\* the size derived from the name alone; 0 stands for None
integer_name_bits(value) ==
    IF contains(value, "LARGE") \/ startswith(value, "BIG") \/ value = "INT8" THEN 64
    ELSE IF contains(value, "MEDIUM") \/ value \in {"INT4", "SERIAL"} THEN 32
    ELSE IF contains(value, "SMALL") \/ value = "INT2" THEN 16
    ELSE IF contains(value, "TINY") THEN 8
    ELSE 0

\* sz after the modifier fallback and the isdigit conversion; 0 stands for None
integer_bits(value, modifier) ==
    LET sz == integer_name_bits(value)
    IN IF sz # 0 THEN sz
       ELSE IF modifier # "" /\ isdigit(modifier) THEN digits_value(modifier)
       ELSE 0

is_unsigned(value) ==
    \/ contains(value, "U") /\ ~contains(value, "MEDIUM")
    \/ contains(value, "UNSIGNED")
    \/ value = "ROWID"

integer_rule(value, modifier) ==
    IF is_unsigned(value)
    THEN integer_dtype_from_nbits(integer_bits(value, modifier), TRUE, UInt64)
    ELSE integer_dtype_from_nbits(integer_bits(value, modifier), FALSE, Int64)

is_decimal(value) == contains(value, "DECIMAL") \/ contains(value, "NUMERIC")

\* variant: NUMERIC without precision and scale is a Decimal too
decimal_rule_numeric_as_decimal(value, modifier) ==
    IF contains(modifier, ",")
    THEN LET i == find(modifier, ",")
             prec == SubSeq(modifier, 1, i - 1)
             scale == SubSeq(modifier, i + 1, Len(modifier))
         IN IF count(modifier, ",") # 1 THEN Raised("ValueError")
            ELSE IF ~int_ok(prec) \/ ~int_ok(scale) THEN Raised("ValueError")
            ELSE Assigned(DecimalOf(int_value(prec), int_value(scale)))
    ELSE Assigned(Decimal)

decimal_rule(value, modifier) ==
    IF contains(modifier, ",")
    THEN LET i == find(modifier, ",")
             prec == SubSeq(modifier, 1, i - 1)
             scale == SubSeq(modifier, i + 1, Len(modifier))
         IN IF count(modifier, ",") # 1 THEN Raised("ValueError")  \* unpacking
            ELSE IF ~int_ok(prec) \/ ~int_ok(scale) THEN Raised("ValueError")
            ELSE Assigned(DecimalOf(int_value(prec), int_value(scale)))
    ELSE Assigned(IF contains(value, "DECIMAL") THEN Decimal ELSE Float64)

is_string(value) ==
    \/ \E tp \in {"VARCHAR", "STRING", "TEXT", "UNICODE"} : contains(value, tp)
    \/ \E pfx \in {"STR", "CHAR", "NCHAR", "UTF"} : startswith(value, pfx)
    \/ \E sfx \in {"_UTF8", "_UTF16", "_UTF32"} : endswith(value, sfx)

is_binary(value) == value \in {"BYTEA", "BYTES", "BLOB", "CLOB", "BINARY"}

is_boolean(value) == startswith(value, "BOOL")

is_temporal(value) ==
    /\ startswith(value, "DATETIME") \/ startswith(value, "TIMESTAMP")
    /\ ~endswith(value, "[D]")

\* variant: WITHOUT is not looked for
has_unknown_timezone_any(value) ==
    \E tz \in {"TZ", "TIMEZONE"} : contains(replace(value, " ", ""), tz)

\* there's a timezone, but we don't know what it is
has_unknown_timezone(value) ==
    /\ \E tz \in {"TZ", "TIMEZONE"} : contains(replace(value, " ", ""), tz)
    /\ ~contains(value, "WITHOUT")

temporal_rule(value, modifier) ==
    IF has_unknown_timezone(value)
    THEN ReturnedNone
    ELSE LET unit == IF modifier # "" THEN timeunit_from_precision(modifier) ELSE "us"
         IN Assigned(Datetime(IF unit # "" THEN unit ELSE "us"))

is_duration(value) == sub_digits(value) \in {"INTERVAL", "TIMEDELTA"}

is_date(value) == value \in {"DATE", "DATE32", "DATE64"}

is_time(value) == value \in {"TIME", "TIME32", "TIME64"}

\* the elif chain below the array rule
classify_scalar(value, modifier) ==
    IF is_float(value) THEN Assigned(float_rule(value, modifier))
    ELSE IF is_integer(value) THEN Assigned(integer_rule(value, modifier))
    ELSE IF is_decimal(value) THEN decimal_rule(value, modifier)
    ELSE IF is_string(value) THEN Assigned(String)
    ELSE IF is_binary(value) THEN Assigned(Binary)
    ELSE IF is_boolean(value) THEN Assigned(Boolean)
    ELSE IF is_temporal(value) THEN temporal_rule(value, modifier)
    ELSE IF is_duration(value) THEN Assigned(Duration)
    ELSE IF is_date(value) THEN Assigned(Date)
    ELSE IF is_time(value) THEN Assigned(Time)
    ELSE Assigned(NoneVal)

\* the if/elif chain over the normalised value and its modifier
classify(value, modifier) ==
    IF is_array(value) THEN array_rule(value, modifier)
    ELSE classify_scalar(value, modifier)

\* `if not dtype and raise_unmatched: raise ValueError; return dtype`
raise_or_return(r, raise_flag) ==
    IF r.exc # "" THEN Raise(r.exc)
    ELSE IF r.returned THEN Return(r.val)
    ELSE IF r.val.base = "None" /\ raise_flag THEN Raise("ValueError")
    ELSE Return(r.val)

infer_dtype_from_database_typename(value, raise_flag) ==
    LET m == extract_modifier(normalise(value))
    IN raise_or_return(classify(m.value, m.modifier), raise_flag)

----------------------------------------------------------------------------
(* polars/datatypes/convert.py: dtype_short_repr_to_dtype                  *)

\* stands for None where the code expects an int
NoneInt == 0 - 1

Object == DT("Object")
Null == DT("Null")
Categorical == DT("Categorical")
Struct == DT("Struct")
Array == DT("Array")
Unknown == DT("Unknown")
ListClass == DT("List")
DatetimeClass == DT("Datetime")

DurationOf(time_unit) == [base |-> "Duration", params |-> <<time_unit>>]
DatetimeTz(time_unit, time_zone) ==
    [base |-> "Datetime", params |-> <<time_unit, time_zone>>]

\* the dtype classes among the globals of convert.py
POLARS_DTYPE_GLOBALS ==
    {Array, Binary, Boolean, Categorical, Date, DatetimeClass, Decimal, Duration,
     Float32, Float64, Int8, Int16, Int32, Int64, ListClass, Null, Object,
     String, Struct, Time, UInt8, UInt16, UInt32, UInt64, Unknown}

TimeUnits == {"ms", "us", "ns"}

DigitChar == <<"0", "1", "2", "3", "4", "5", "6", "7", "8", "9">>

\* str(n) for n >= 0
RECURSIVE str_int(_)
str_int(n) ==
    IF n < 10 THEN DigitChar[n + 1]
    ELSE str_int(n \div 10) \o DigitChar[(n % 10) + 1]

\* the base text of the canonical short form of each dtype class
short_name(b) ==
    CASE b = "Int8" -> "i8" [] b = "Int16" -> "i16" [] b = "Int32" -> "i32"
      [] b = "Int64" -> "i64" [] b = "UInt8" -> "u8" [] b = "UInt16" -> "u16"
      [] b = "UInt32" -> "u32" [] b = "UInt64" -> "u64"
      [] b = "Float32" -> "f32" [] b = "Float64" -> "f64"
      [] b = "String" -> "str" [] b = "Binary" -> "binary"
      [] b = "Boolean" -> "bool" [] b = "Date" -> "date" [] b = "Time" -> "time"
      [] b = "Datetime" -> "datetime" [] b = "Duration" -> "duration"
      [] b = "Decimal" -> "decimal" [] b = "List" -> "list"
      [] b = "Array" -> "array" [] b = "Struct" -> "struct"
      [] b = "Categorical" -> "cat" [] b = "Object" -> "object"
      [] b = "Null" -> "null" [] b = "Unknown" -> "unknown"

time_unit_text(time_unit) == IF time_unit = "us" THEN "μs" ELSE time_unit

\* the canonical short text of a scalar or simple parametric dtype:
\* TypeName or TypeName[arg1, arg2]
dtype_str_repr(d) ==
    CASE d.params = <<>> -> short_name(d.base)
      [] d.base = "Decimal" /\ Len(d.params) = 2 ->
            "decimal["
            \o (IF d.params[1] = NoneInt THEN "*" ELSE str_int(d.params[1]))
            \o "," \o str_int(d.params[2]) \o "]"
      [] d.base \in {"Datetime", "Duration"} /\ Len(d.params) = 1 ->
            short_name(d.base) \o "[" \o time_unit_text(d.params[1]) \o "]"
      [] d.base = "Datetime" /\ Len(d.params) = 2 ->
            "datetime[" \o time_unit_text(d.params[1]) \o ", "
            \o d.params[2] \o "]"

\* _dtype_str_repr(o.base_type()).split("[")[0]
dtype_str_repr_safe(cls) == short_name(cls.base)

\* DataTypeMappings.REPR_TO_DTYPE.get(dtype_base)
REPR_TO_DTYPE_get(dtype_base) ==
    LET hits == {cls \in POLARS_DTYPE_GLOBALS : dtype_str_repr_safe(cls) = dtype_base}
    IN IF hits = {} THEN NoneVal ELSE CHOOSE cls \in hits : TRUE

\* the regular expression class \w on str, which holds the micro sign too
ReWordChars == WordChars \cup {"μ"}

\* length of the longest prefix of word characters
word_prefix_len(s) ==
    CHOOSE k \in 0..Len(s) :
        /\ \A i \in 1..k : Char(s, i) \in ReWordChars
        /\ k < Len(s) => Char(s, k + 1) \notin ReWordChars

\* re.match(r"^(\w+)(?:\[(.+)\])?$", s): [matched, base, subtype];
\* subtype = "" stands for None
match_short_repr(s) ==
    LET k == word_prefix_len(s)
    IN IF k >= 1 /\ k = Len(s)
       THEN [matched |-> TRUE, base |-> s, subtype |-> ""]
       ELSE IF k >= 1 /\ Len(s) >= k + 3 /\ Char(s, k + 1) = "[" /\ Last(s) = "]"
       THEN [matched |-> TRUE, base |-> SubSeq(s, 1, k),
             subtype |-> SubSeq(s, k + 2, Len(s) - 1)]
       ELSE [matched |-> FALSE, base |-> "", subtype |-> ""]

\* str.split(sep)
RECURSIVE split(_, _)
split(s, sep) ==
    LET i == find(s, sep)
    IN IF i = 0 THEN <<s>>
       ELSE <<SubSeq(s, 1, i - 1)>> \o split(SubSeq(s, i + Len(sep), Len(s)), sep)

\* str.strip(chars)
RECURSIVE strip_chars(_, _)
strip_chars(s, chars) ==
    IF s # "" /\ Head(s) \in chars THEN strip_chars(Tail(s), chars)
    ELSE IF s # "" /\ Last(s) \in chars
    THEN strip_chars(SubSeq(s, 1, Len(s) - 1), chars)
    ELSE s

\* (s.strip("'\" ") for s in subtype.replace("μs", "us").split(","))
subtype_args(subtype) ==
    LET parts == split(replace(subtype, "μs", "us"), ",")
    IN [i \in 1..Len(parts) |-> strip_chars(parts[i], {"'", "\"", " "})]

\* dtype(*args) for text arguments: the constructors of the dtype classes.
\* Types without parameters accept no argument; Datetime takes a time unit
\* and an optional time zone, Duration a time unit; List converts its one
\* argument with py_type_to_dtype, which rejects a str.
construct(cls, args) ==
    CASE cls.base = "Datetime" ->
            IF Len(args) > 2 THEN Raise("TypeError")
            ELSE IF args[1] \notin TimeUnits THEN Raise("ValueError")
            ELSE IF Len(args) = 1 THEN Return(Datetime(args[1]))
            ELSE Return(DatetimeTz(args[1], args[2]))
      [] cls.base = "Duration" ->
            IF Len(args) > 1 THEN Raise("TypeError")
            ELSE IF args[1] \notin TimeUnits THEN Raise("ValueError")
            ELSE Return(DurationOf(args[1]))
      [] cls.base = "List" ->
            IF Len(args) > 1 THEN Raise("TypeError") ELSE Raise("ValueError")
      [] cls.base \notin {"Datetime", "Duration", "List", "Decimal", "Array",
                          "Struct", "Categorical"} ->
            Raise("TypeError")

\* dtype_short_repr_to_dtype(dtype_string) for a str argument
dtype_short_repr_to_dtype(dtype_string) ==
    LET m == match_short_repr(dtype_string)
        cls == REPR_TO_DTYPE_get(m.base)
        built == IF eq_class(cls, Decimal)
                 THEN IF int_ok(m.subtype)
                      THEN Return(DecimalOf(NoneInt, int_value(m.subtype)))
                      ELSE Raise("ValueError")
                 ELSE construct(cls, subtype_args(m.subtype))
    IN IF ~m.matched THEN Return(NoneVal)
       ELSE IF cls # NoneVal /\ m.subtype # ""
       THEN IF built.exc = "ValueError" THEN Return(cls) ELSE built
       ELSE Return(cls)

----------------------------------------------------------------------------
(* polars/io/database.py: ConnectionExecutor._inject_type_overrides        *)

\* a type_code is a string, a class (named by v) or some other driver value
StrCode(v) == [kind |-> "str", v |-> v]
ClassCode(v) == [kind |-> "class", v |-> v]
OtherCode(v) == [kind |-> "other", v |-> v]

\* issubclass(cls, base) for the classes the model draws from; Timestamp
\* stands for a user subclass of datetime, Foo for an unrelated class
issubclass(cls, base) ==
    \/ cls = base
    \/ base = "datetime" /\ cls = "Timestamp"
    \/ base = "date" /\ cls \in {"datetime", "Timestamp"}

\* _map_py_type_to_dtype for a plain class, named by its __name__
map_py_type_to_dtype(python_dtype) ==
    IF python_dtype = "float" THEN Return(Float64)
    ELSE IF python_dtype = "int" THEN Return(Int64)
    ELSE IF python_dtype = "str" THEN Return(String)
    ELSE IF python_dtype = "bool" THEN Return(Boolean)
    ELSE IF issubclass(python_dtype, "datetime") THEN Return(Datetime("us"))
    ELSE IF issubclass(python_dtype, "date") THEN Return(Date)
    ELSE IF python_dtype = "timedelta"
    THEN Return([base |-> "Duration", params |-> <<"us">>])
    ELSE IF python_dtype = "time" THEN Return(Time)
    ELSE IF python_dtype = "list" THEN Return(DT("List"))
    ELSE IF python_dtype = "tuple" THEN Return(DT("List"))
    ELSE IF python_dtype = "Decimal" THEN Return(Decimal)
    ELSE IF python_dtype = "bytes" THEN Return(Binary)
    ELSE IF python_dtype = "object" THEN Return(DT("Object"))
    ELSE IF python_dtype = "NoneType" THEN Return(DT("Null"))
    ELSE Raise("TypeError")  \* a plain class has no __origin__

in_dtypes(d, group) == \E g \in group : g.base = d.base

\* the assignment to `dtype` made for one type_code; dtype_in is the value
\* the local holds when the column is reached
resolve_type_code(type_code, dtype_in) ==
    IF type_code.kind = "class"
    THEN LET r == map_py_type_to_dtype(type_code.v)
         IN IF r.exc = "" THEN r ELSE Return(dtype_in)  \* suppress(TypeError)
    ELSE IF type_code.kind = "str"
    THEN infer_dtype_from_database_typename(type_code.v, FALSE)
    ELSE Return(dtype_in)

\* variant: precision and scale are applied to any resolved dtype
refine_dtype_any_precision(d, internal_size, prec, scale) ==
    IF d.base = "None" THEN d
    ELSE IF prec # NoneInt /\ scale # NoneInt /\ prec <= 38 /\ scale <= 38
    THEN DecimalOf(prec, scale)
    ELSE IF eq_class(d, Float64) /\ internal_size = 4 THEN Float32
    ELSE IF in_dtypes(d, INTEGER_DTYPES) /\ internal_size \in {2, 4, 8}
    THEN integer_dtype_from_nbits(internal_size * 8, in_dtypes(d, UNSIGNED_INTEGER_DTYPES), d)
    ELSE d

\* variant: a generic float is narrowed whatever its internal_size
refine_dtype_always_narrow(d, internal_size, prec, scale) ==
    IF d.base = "None" THEN d
    ELSE IF eq_class(d, Float64) THEN Float32
    ELSE IF in_dtypes(d, INTEGER_DTYPES) /\ internal_size \in {2, 4, 8}
    THEN integer_dtype_from_nbits(internal_size * 8, in_dtypes(d, UNSIGNED_INTEGER_DTYPES), d)
    ELSE IF /\ eq_class(d, Decimal)
            /\ prec # NoneInt /\ scale # NoneInt
            /\ prec <= 38 /\ scale <= 38
    THEN DecimalOf(prec, scale)
    ELSE d

\* check additional cursor information to improve dtype inference
refine_dtype(d, internal_size, prec, scale) ==
    IF d.base = "None" THEN d
    ELSE IF eq_class(d, Float64) /\ internal_size = 4 THEN Float32
    ELSE IF in_dtypes(d, INTEGER_DTYPES) /\ internal_size \in {2, 4, 8}
    THEN integer_dtype_from_nbits(internal_size * 8, in_dtypes(d, UNSIGNED_INTEGER_DTYPES), d)
    ELSE IF /\ eq_class(d, Decimal)
            /\ prec # NoneInt /\ scale # NoneInt
            /\ prec <= 38 /\ scale <= 38
    THEN DecimalOf(prec, scale)
    ELSE d

\* schema_overrides[nm] = dtype
set_item(mapping, nm, d) ==
    [k \in DOMAIN mapping \cup {nm} |-> IF k = nm THEN d ELSE mapping[k]]

EmptyDict == [k \in {} |-> NoneVal]

----------------------------------------------------------------------------
(* polars/datatypes/convert.py: _map_py_type_to_dtype behind its           *)
(* lru_cache, and py_type_to_dtype                                         *)

\* a type spec: a plain class (named by v), a builtin generic alias such as
\* list[int], a typing alias such as typing.List[int] or typing.Union[...]
\* (origin v), a types.UnionType such as int | None, a tuple of specs, the
\* object None, or a polars dtype class (base v)
PyClass(n) == [kind |-> "class", v |-> n, args |-> <<>>]
Alias(origin, args) == [kind |-> "alias", v |-> origin, args |-> args]
TypingAlias(origin, args) == [kind |-> "typing", v |-> origin, args |-> args]
UnionType(args) == [kind |-> "uniontype", v |-> "", args |-> args]
TupleOf(args) == [kind |-> "tuple", v |-> "", args |-> args]
NoneObj == [kind |-> "none", v |-> "", args |-> <<>>]
DtypeSpec(b) == [kind |-> "dtype", v |-> b, args |-> <<>>]

NoneType == PyClass("NoneType")
PyInt == PyClass("int")
PyStr == PyClass("str")

\* hasattr(python_dtype, "__origin__") and hasattr(python_dtype, "__args__")
has_origin_and_args(python_dtype) == python_dtype.kind \in {"alias", "typing"}

\* functools.lru_cache(16)
CACHE_MAXSIZE == 16

cache_keys(c) == {c[i].key : i \in 1..Len(c)}

cache_index(c, k) == CHOOSE i \in 1..Len(c) : c[i].key = k

\* a hit moves the entry to the most recently used end
cache_touch(c, k) ==
    LET i == cache_index(c, k)
    IN SubSeq(c, 1, i - 1) \o SubSeq(c, i + 1, Len(c)) \o <<c[i]>>

\* variant: a full cache keeps growing
cache_put_unbounded(c, k, d) ==
    IF k \in cache_keys(c) THEN c ELSE Append(c, [key |-> k, val |-> d])

\* a miss stores the result, evicting the least recently used entry of a
\* full cache
cache_put(c, k, d) ==
    IF k \in cache_keys(c) THEN c
    ELSE IF Len(c) >= CACHE_MAXSIZE
    THEN Append(Tail(c), [key |-> k, val |-> d])
    ELSE Append(c, [key |-> k, val |-> d])

\* dtype(inner) in the generic branch: List takes the inner dtype, a type
\* without parameters takes no argument
apply_dtype(d, inner) ==
    IF d.base = "List" THEN Return(List(inner)) ELSE Raise("TypeError")

RECURSIVE lru_call(_, _)

\* the body of _map_py_type_to_dtype; its recursive calls go through the cache
map_body(c, python_dtype) ==
    IF python_dtype.kind = "class"
    THEN [cache |-> c, out |-> map_py_type_to_dtype(python_dtype.v)]
    ELSE IF python_dtype.kind = "dtype"
    THEN [cache |-> c, out |-> Raise("TypeError")]  \* no rule, no __origin__
    ELSE IF python_dtype.kind # "alias"
    THEN [cache |-> c, out |-> Raise("TypeError")]  \* issubclass() arg 1 must be a class
    ELSE LET base == lru_call(c, PyClass(python_dtype.v))
             nested == IF Len(python_dtype.args) = 1 THEN python_dtype.args[1]
                       ELSE TupleOf(python_dtype.args)
             inner == lru_call(base.cache, nested)
         IN IF base.out.exc # "" THEN base
            ELSE IF nested = NoneObj THEN base
            ELSE IF inner.out.exc # "" THEN inner
            ELSE [cache |-> inner.cache,
                  out |-> apply_dtype(base.out.val, inner.out.val)]

\* _map_py_type_to_dtype(python_dtype) through functools.lru_cache(16):
\* a raised exception is not stored
lru_call(c, python_dtype) ==
    IF python_dtype \in cache_keys(c)
    THEN [cache |-> cache_touch(c, python_dtype),
          out |-> Return(c[cache_index(c, python_dtype)].val)]
    ELSE LET r == map_body(c, python_dtype)
         IN IF r.out.exc # "" THEN r
            ELSE [cache |-> cache_put(r.cache, python_dtype, r.out.val),
                  out |-> r.out]

\* isinstance(data_type, (OptionType, UnionType))
is_union(data_type) ==
    \/ data_type.kind = "typing" /\ data_type.v = "Union"
    \/ data_type.kind = "uniontype"

\* [tp for tp in get_args(data_type) if tp is not NoneType]
possible_types(data_type) == SelectSeq(data_type.args, LAMBDA tp : tp # NoneType)

\* variant: a union of several types resolves to its first branch
collapse_union_first_branch(data_type) ==
    IF is_union(data_type) /\ Len(possible_types(data_type)) >= 1
    THEN possible_types(data_type)[1]
    ELSE data_type

\* the Optional / Union step of py_type_to_dtype
collapse_union(data_type) ==
    IF is_union(data_type) /\ Len(possible_types(data_type)) = 1
    THEN possible_types(data_type)[1]
    ELSE data_type

\* py_type_to_dtype(data_type, raise_unmatched=raise_flag) for a type spec
\* that is neither a ForwardRef, an InitVar nor a str
py_type_to_dtype(c, data_type, raise_flag) ==
    IF data_type.kind = "dtype"
    THEN [cache |-> c, out |-> Return(DT(data_type.v))]
    ELSE LET r == lru_call(c, collapse_union(data_type))
         IN IF r.out.exc \in {"KeyError", "TypeError"}
            THEN [cache |-> r.cache,
                  out |-> IF raise_flag THEN Raise("ValueError")
                          ELSE Return(NoneVal)]
            ELSE r

----------------------------------------------------------------------------
(* polars/datatypes/convert.py: dtype_to_py_type                           *)

ArrayOf(inner, width) == [base |-> "Array", params |-> <<inner, width>>]

\* DataTypeMappings.DTYPE_TO_PY_TYPE, keyed by the dtype class
DTYPE_TO_PY_TYPE ==
    [b \in {"Float64", "Float32", "Int64", "Int32", "Int16", "Int8", "String",
            "UInt8", "UInt16", "UInt32", "UInt64", "Decimal", "Boolean",
            "Duration", "Datetime", "Date", "Time", "Binary", "List", "Array",
            "Null"} |->
        CASE b \in {"Float64", "Float32"} -> PyClass("float")
          [] b \in {"Int64", "Int32", "Int16", "Int8",
                    "UInt8", "UInt16", "UInt32", "UInt64"} -> PyInt
          [] b = "String" -> PyStr
          [] b = "Decimal" -> PyClass("Decimal")
          [] b = "Boolean" -> PyClass("bool")
          [] b = "Duration" -> PyClass("timedelta")
          [] b = "Datetime" -> PyClass("datetime")
          [] b = "Date" -> PyClass("date")
          [] b = "Time" -> PyClass("time")
          [] b = "Binary" -> PyClass("bytes")
          [] b \in {"List", "Array"} -> PyClass("list")
          [] b = "Null" -> NoneType]

\* dtype.base_type(): the class of an instance, the class itself for a class
base_type(d) == DT(d.base)

\* dtype_to_py_type(dtype); the outcome's val is a Python class
dtype_to_py_type(d) ==
    LET cls == base_type(d)
    IN IF cls.base \in DOMAIN DTYPE_TO_PY_TYPE
       THEN [exc |-> "", val |-> DTYPE_TO_PY_TYPE[cls.base]]
       ELSE [exc |-> "NotImplementedError", val |-> NoneObj]

----------------------------------------------------------------------------
(* Series construction from Python values, as the fallback constructors    *)
(* new_from_any_values and new_from_any_values_and_dtype do it             *)

\* a Python value: the name of its class and its text
PyVal(kind, v) == [kind |-> kind, v |-> v]

PyNone == PyVal("NoneType", "None")

NoSeries ==
    [values |-> <<>>, dtype |-> NoneVal, given |-> FALSE, strict |-> FALSE,
     result |-> <<>>, error |-> ""]

\* the dtype a value of the class has
native_dtype(kind) ==
    CASE kind = "bool" -> Boolean [] kind = "int" -> Int64
      [] kind = "float" -> Float64 [] kind = "str" -> String
      [] kind = "bytes" -> Binary [] kind = "date" -> Date
      [] kind = "time" -> Time [] kind = "datetime" -> Datetime("us")
      [] kind = "timedelta" -> DurationOf("us") [] kind = "NoneType" -> Null

\* variant: a datetime or timedelta is of a Datetime or Duration of any unit
is_exact_any_unit(value, d) ==
    value = PyNone \/ native_dtype(value.kind).base = d.base

\* the value is None or already of the dtype
is_exact(value, d) == value = PyNone \/ native_dtype(value.kind) = d

\* variant: any text converts to a number
castable_any_text(value, d) ==
    CASE d.base \in {"Int64", "Float64"} ->
            value.kind \in {"bool", "int", "float", "date", "str"}
      [] d.base = "Boolean" -> value.kind \in {"bool", "int", "float"}
      [] d.base = "Binary" -> value.kind \in {"bytes", "str"}
      [] d.base = "String" ->
            value.kind \in {"str", "int", "float", "date", "bool"}
      [] d.base = "Date" -> value.kind \in {"int", "float", "date", "datetime"}
      [] d.base = "Time" -> value.kind \in {"int", "float", "time", "datetime"}
      [] d.base = "Datetime" ->
            value.kind \in {"int", "float", "date", "datetime"}
      [] d.base = "Duration" ->
            value.kind \in {"int", "float", "time", "timedelta"}

\* the classes whose values have a lenient conversion to the dtype; text
\* converts to a number only when it spells one
castable(value, d) ==
    CASE d.base \in {"Int64", "Float64"} ->
            \/ value.kind \in {"bool", "int", "float", "date"}
            \/ value.kind = "str" /\ int_ok(value.v)
      [] d.base = "Boolean" -> value.kind \in {"bool", "int", "float"}
      [] d.base = "Binary" -> value.kind \in {"bytes", "str"}
      [] d.base = "String" ->
            value.kind \in {"str", "int", "float", "date", "bool"}
      [] d.base = "Date" -> value.kind \in {"int", "float", "date", "datetime"}
      [] d.base = "Time" -> value.kind \in {"int", "float", "time", "datetime"}
      [] d.base = "Datetime" ->
            value.kind \in {"int", "float", "date", "datetime"}
      [] d.base = "Duration" ->
            value.kind \in {"int", "float", "time", "timedelta"}

\* the value converted to the dtype
cast(value, d) ==
    [kind |-> d.base, v |-> value.kind \o ":" \o value.v]

\* one value into a series of the dtype
coerce_value(value, d, strict) ==
    IF is_exact(value, d) \/ d = Object THEN [exc |-> "", val |-> value]
    ELSE IF strict THEN [exc |-> "SchemaError", val |-> PyNone]
    ELSE IF castable(value, d) THEN [exc |-> "", val |-> cast(value, d)]
    ELSE [exc |-> "", val |-> PyNone]

\* position of a dtype in the promotion chain of numbers and text; 0 outside
promotion_rank(d) ==
    CASE d = Boolean -> 1 [] d = Int64 -> 2 [] d = Float64 -> 3
      [] d = String -> 4 [] OTHER -> 0

\* variant: unrelated dtypes promote to String
get_supertype_string_fallback(a, b) ==
    IF a = b THEN a
    ELSE IF promotion_rank(a) > 0 /\ promotion_rank(b) > 0
    THEN IF promotion_rank(a) > promotion_rank(b) THEN a ELSE b
    ELSE IF {a, b} = {Date, Datetime("us")} THEN Datetime("us")
    ELSE String

\* the common dtype of two dtypes; NoneVal when there is none
get_supertype(a, b) ==
    IF a = b THEN a
    ELSE IF promotion_rank(a) > 0 /\ promotion_rank(b) > 0
    THEN IF promotion_rank(a) > promotion_rank(b) THEN a ELSE b
    ELSE IF {a, b} = {Date, Datetime("us")} THEN Datetime("us")
    ELSE NoneVal

\* the common dtype of the non-null values, folded left to right
RECURSIVE supertype_of(_, _)
supertype_of(acc, values) ==
    IF values = <<>> THEN acc
    ELSE IF Head(values) = PyNone THEN supertype_of(acc, Tail(values))
    ELSE IF acc = Null
    THEN supertype_of(native_dtype(Head(values).kind), Tail(values))
    ELSE IF acc = NoneVal THEN NoneVal
    ELSE supertype_of(get_supertype(acc, native_dtype(Head(values).kind)),
                      Tail(values))

\* the dtype of a series built without a dtype: in strict mode that of the
\* first non-null value, otherwise the common dtype, Object when none
infer_series_dtype(values, strict) ==
    LET nonnull == SelectSeq(values, LAMBDA x : x # PyNone)
        common == supertype_of(Null, values)
    IN IF nonnull = <<>> THEN Null
       ELSE IF strict THEN native_dtype(nonnull[1].kind)
       ELSE IF common = NoneVal THEN Object
       ELSE common

----------------------------------------------------------------------------
(* polars/io/database.py: ConnectionExecutor                               *)

\* an object handed to the executor: the module of its type, the type's
\* name, the driver of its sqlalchemy engine, its shape ("connection": it has
\* a cursor() method; "holder": it has a cursor attribute that is not
\* callable; "cursor": it only has execute; "opaque": it has neither), whether
\* it has a close method, and how the driver answers an Arrow fetch
Conn(module, type_name, engine_driver, shape, has_close, arrow) ==
    [module |-> module, type_name |-> type_name, engine_driver |-> engine_driver,
     shape |-> shape, has_close |-> has_close, arrow |-> arrow]

NoConnection == Conn("", "", "", "opaque", FALSE, "ok")

\* the executor's fields; cursor names the object it executes on: the
\* caller's own object ("connection"), an attribute of it ("attribute") or an
\* object the executor obtained from it ("created")
NoExecutor ==
    [driver_name |-> "", cursor |-> "none", can_close_cursor |-> FALSE,
     result |-> "None"]

\* a query: a str, or a Selectable object built from the text
Query(is_str, text) == [is_str |-> is_str, text |-> text]

NoCall ==
    [op |-> "", query |-> Query(FALSE, ""), select_queries_only |-> FALSE,
     executed |-> FALSE, iter_batches |-> FALSE, batch_size |-> NoneInt,
     error |-> "", fetched |-> {}, n |-> 0]

INVALID_QUERY_TYPES ==
    {"ALTER", "ANALYZE", "CREATE", "DELETE", "DROP", "INSERT", "REPLACE",
     "UPDATE", "UPSERT", "USE", "VACUUM"}

\* re.sub(r"/\*(.|[\r\n])*?\*/", "", s): every comment that is closed
RECURSIVE sub_comments(_)
sub_comments(s) ==
    LET i == find(s, "/*")
        rest == SubSeq(s, i + 2, Len(s))
        j == find(rest, "*/")
    IN IF i = 0 \/ j = 0 THEN s
       ELSE SubSeq(s, 1, i - 1) \o sub_comments(SubSeq(rest, j + 2, Len(rest)))

\* the length of the run of \w characters at the start of s
RECURSIVE word_run(_)
word_run(s) ==
    IF s = "" \/ Head(s) \notin WordChars THEN 0 ELSE 1 + word_run(Tail(s))

\* re.search(r"\w{3,}", s): the first run of three or more \w characters,
\* "" when there is none
RECURSIVE search_word3(_)
search_word3(s) ==
    IF s = "" THEN ""
    ELSE LET n == word_run(s)
         IN IF n >= 3 THEN SubSeq(s, 1, n)
            ELSE search_word3(SubSeq(s, (IF n = 0 THEN 1 ELSE n) + 1, Len(s)))

\* database.py:439: the query type of a str query
query_type(text) == search_word3(sub_comments(text))

\* database.py:438-442: the query is refused with UnsuitableSQLError
is_invalid_query(query, select_queries_only) ==
    /\ select_queries_only
    /\ query.is_str
    /\ query_type(query.text) \in INVALID_QUERY_TYPES

\* no generator
NoGen == [at |-> "none"]

ExecutorIdle ==
    /\ connection = NoConnection
    /\ cx = NoExecutor
    /\ closed = {}
    /\ call = NoCall
    /\ gen = NoGen

ConvertIdle ==
    arg = NoneVal /\ cache = <<>> /\ ncalls = 0 /\ series = NoSeries

\* one entry of _ARROW_DRIVER_REGISTRY_; "" stands for None
Driver(pattern, fetch_all, fetch_batches, exact_batch_size, repeat_batch_calls) ==
    [pattern |-> pattern, fetch_all |-> fetch_all, fetch_batches |-> fetch_batches,
     exact_batch_size |-> exact_batch_size, repeat_batch_calls |-> repeat_batch_calls]

ARROW_DRIVER_REGISTRY ==
    <<Driver("adbc_.*", "fetch_arrow_table", "", FALSE, FALSE),
      Driver("arrow_odbc_proxy", "fetch_arrow_table", "fetch_record_batches", TRUE, FALSE),
      Driver("databricks", "fetchall_arrow", "fetchmany_arrow", TRUE, TRUE),
      Driver("duckdb", "fetch_arrow_table", "fetch_record_batch", TRUE, FALSE),
      Driver("kuzu", "get_as_arrow", "", FALSE, FALSE),
      Driver("snowflake", "fetch_arrow_all", "fetch_arrow_batches", FALSE, FALSE),
      Driver("turbodbc", "fetchallarrow", "fetcharrowbatches", FALSE, FALSE)>>

\* re.match(f"^{driver}$", self.driver_name)
driver_matches(pattern, driver_name) ==
    IF endswith(pattern, ".*")
    THEN startswith(driver_name, SubSeq(pattern, 1, Len(pattern) - 2))
    ELSE driver_name = pattern

\* ConnectionExecutor.__init__: the driver name of the connection
driver_name_of(conn) ==
    IF conn.type_name = "ODBCCursorProxy" THEN "arrow_odbc_proxy"
    ELSE lower(split_first(conn.module, "."))

\* ConnectionExecutor._normalise_cursor: the cursor to execute on, the driver
\* name and can_close_cursor as it leaves them, or the TypeError
normalise_cursor(conn, driver_name) ==
    IF driver_name = "sqlalchemy"
    THEN LET can == conn.type_name = "Engine"
         IN IF conn.type_name = "Session"
            THEN [error |-> "", driver_name |-> driver_name, cursor |-> "connection",
                  can_close_cursor |-> can]
            ELSE IF conn.engine_driver = "databricks-sql-python"
            THEN [error |-> "", driver_name |-> "databricks", cursor |-> "created",
                  can_close_cursor |-> can]
            ELSE IF conn.engine_driver = "duckdb_engine"
            THEN [error |-> "", driver_name |-> "duckdb", cursor |-> "created",
                  can_close_cursor |-> can]
            ELSE IF conn.type_name = "Engine"
            THEN [error |-> "", driver_name |-> driver_name, cursor |-> "created",
                  can_close_cursor |-> can]
            ELSE [error |-> "", driver_name |-> driver_name, cursor |-> "connection",
                  can_close_cursor |-> can]
    ELSE IF conn.shape = "connection"
    THEN [error |-> "", driver_name |-> driver_name, cursor |-> "created",
          can_close_cursor |-> TRUE]
    ELSE IF conn.shape = "holder"
    THEN [error |-> "", driver_name |-> driver_name, cursor |-> "attribute",
          can_close_cursor |-> TRUE]
    ELSE IF conn.shape = "cursor"
    THEN [error |-> "", driver_name |-> driver_name, cursor |-> "connection",
          can_close_cursor |-> FALSE]
    ELSE [error |-> "TypeError", driver_name |-> driver_name, cursor |-> "none",
          can_close_cursor |-> FALSE]

\* hasattr(self.cursor, "close")
cursor_has_close(conn, cursor) ==
    IF cursor = "connection" THEN conn.has_close ELSE cursor # "none"

\* hasattr(self.result, "fetchall")
result_has_fetchall(conn) ==
    conn.type_name # "ODBCCursorProxy" /\ ~startswith(conn.module, "kuzu")

\* variant: the batch arguments are checked before the result
to_polars_check_batches_first(result, iter_batches, batch_size) ==
    IF iter_batches /\ (batch_size = NoneInt \/ batch_size = 0) THEN "ValueError"
    ELSE IF result = "None" THEN "RuntimeError"
    ELSE ""

\* to_polars: the checks made before any frame is initialised
to_polars_check(result, iter_batches, batch_size) ==
    IF result = "None" THEN "RuntimeError"
    ELSE IF iter_batches /\ (batch_size = NoneInt \/ batch_size = 0) THEN "ValueError"
    ELSE ""

\* the registry entries whose pattern matches the driver name, by position
matching_drivers(driver_name) ==
    {i \in 1..Len(ARROW_DRIVER_REGISTRY) :
        driver_matches(ARROW_DRIVER_REGISTRY[i].pattern, driver_name)}

\* _from_arrow: whether a frame (or a lazy generator of frames) is returned,
\* the exception that escapes, can_close_cursor as it is left, and the fetch
\* methods called on the result before the return
from_arrow(conn, driver_name, can_close_cursor, iter_batches) ==
    LET hits == matching_drivers(driver_name)
    IN IF hits = {}
       THEN [frame |-> FALSE, error |-> "", can_close_cursor |-> can_close_cursor,
             fetched |-> {}]
       ELSE LET props == ARROW_DRIVER_REGISTRY[CHOOSE i \in hits : \A j \in hits : i <= j]
                can == props.fetch_batches = "" \/ ~iter_batches
            IN IF iter_batches  \* the generator is returned before it runs
               THEN [frame |-> TRUE, error |-> "", can_close_cursor |-> can,
                     fetched |-> {}]
               ELSE IF conn.arrow = "ok"  \* next(frames) calls fetch_all once
               THEN [frame |-> TRUE, error |-> "", can_close_cursor |-> can,
                     fetched |-> {props.fetch_all}]
               ELSE IF conn.arrow = "unsupported"  \* swallowed: return None
               THEN [frame |-> FALSE, error |-> "", can_close_cursor |-> can,
                     fetched |-> {props.fetch_all}]
               ELSE [frame |-> FALSE, error |-> "Exception", can_close_cursor |-> can,
                     fetched |-> {props.fetch_all}]

\* _from_rows: whether a frame (or generator) is returned and the fetch
\* methods called on the result before the return
from_rows(conn, iter_batches) ==
    IF result_has_fetchall(conn)
    THEN [frame |-> TRUE, fetched |-> {IF iter_batches THEN "fetchmany" ELSE "fetchall"}]
    ELSE [frame |-> FALSE, fetched |-> {}]

\* to_polars: the exception raised ("" for a returned frame), can_close_cursor
\* as it is left and the fetch methods called
to_polars(conn, executor, iter_batches, batch_size) ==
    LET check == to_polars_check(executor.result, iter_batches, batch_size)
        arrow == from_arrow(conn, executor.driver_name, executor.can_close_cursor,
                            iter_batches)
        rows == from_rows(conn, iter_batches)
    IN IF check # ""
       THEN [error |-> check, can_close_cursor |-> executor.can_close_cursor,
             fetched |-> {}]
       ELSE IF arrow.frame \/ arrow.error # ""
       THEN [error |-> arrow.error, can_close_cursor |-> arrow.can_close_cursor,
             fetched |-> arrow.fetched]
       ELSE [error |-> IF rows.frame THEN "" ELSE "NotImplementedError",
             can_close_cursor |-> arrow.can_close_cursor,
             fetched |-> arrow.fetched \cup rows.fetched]

----------------------------------------------------------------------------
(* Bounds and inputs                                                       *)

MaxFragments == 3
MaxColumns == 3
MaxCalls == 3
MaxTextFragments == 2
MaxMapCalls == 2
MaxValues == 2
MaxNesting == 3
MaxDepth == 5
MaxBatches == 3

\* fragments of driver-reported type names: integer names, decimal and
\* string names, temporal names, each with the modifiers and array markers
\* drivers attach to them; a name is assembled from one vocabulary
IntegerWords ==
    {"INT", "INTEGER", "TINY", "BIG", "SERIAL", " UNSIGNED", "4", "(64)", "[]"}

DecimalWords ==
    {"DECIMAL", "NumericType", "VARCHAR", "INT", "(10,2)", "(64)", "[]"}

TemporalWords ==
    {"TIMESTAMP", " WITH TIME ZONE", " WITHOUT TIME ZONE", "INT", "(64)", "[D]", "[]"}

Vocabularies == {IntegerWords, DecimalWords, TemporalWords}

Fragments == UNION Vocabularies

\* one entry of a cursor description: desc is None, or
\* (type_code, _disp_size, internal_size, prec, scale, _null_ok)
Desc(type_code, internal_size, prec, scale) ==
    [is_none |-> FALSE, type_code |-> type_code, internal_size |-> internal_size,
     prec |-> prec, scale |-> scale]

NoDesc ==
    [is_none |-> TRUE, type_code |-> OtherCode("None"), internal_size |-> NoneInt,
     prec |-> NoneInt, scale |-> NoneInt]

Descriptors ==
    {Desc(StrCode("INTEGER"), 4, NoneInt, NoneInt),
     Desc(StrCode("VARCHAR(255)"), NoneInt, NoneInt, NoneInt),
     Desc(StrCode("NUMERIC"), NoneInt, 10, 2),
     Desc(StrCode("DECIMAL"), NoneInt, 10, 2),
     Desc(StrCode("FLOAT"), 4, NoneInt, NoneInt),
     Desc(StrCode("FLOAT"), 8, NoneInt, NoneInt),
     Desc(ClassCode("float"), NoneInt, NoneInt, NoneInt),
     Desc(ClassCode("Foo"), 4, NoneInt, NoneInt),
     Desc(OtherCode("23"), NoneInt, NoneInt, NoneInt),
     Desc(StrCode("GEOMETRY"), NoneInt, NoneInt, NoneInt),
     NoDesc}

\* the keys of the description, by position
ColumnNames == <<"id", "name", "amt", "c4", "c5", "c6">>

\* the dtype a caller puts in its own schema_overrides
UserDtype == DT("Categorical")

UserOverrides ==
    {EmptyDict} \cup {set_item(EmptyDict, ColumnNames[i], UserDtype) : i \in 1..MaxColumns}

\* modules of DBAPI2-style connection and cursor types
Modules ==
    {"sqlite3", "adbc_driver_manager.dbapi", "databricks.sql.client", "duckdb",
     "kuzu.connection", "snowflake.connector.cursor", "turbodbc.cursor"}

\* the objects a caller (or read_database, for an ODBC string) hands over
Connections ==
    {Conn(m, "Object", "", shape, TRUE, arrow) :
        m \in Modules, shape \in {"connection", "holder", "cursor", "opaque"},
        arrow \in {"ok", "unsupported"}}
    \cup {Conn(m, "Object", "", "cursor", FALSE, "ok") : m \in Modules}
    \cup {Conn(m, "Object", "", "connection", TRUE, "broken") : m \in Modules}
    \cup {Conn("sqlalchemy.engine.base", tp, drv, "cursor", TRUE, arrow) :
            tp \in {"Engine", "Connection"},
            drv \in {"databricks-sql-python", "duckdb_engine", "psycopg2"},
            arrow \in {"ok", "unsupported"}}
    \cup {Conn("sqlalchemy.orm.session", "Session", drv, "cursor", TRUE, "ok") :
            drv \in {"databricks-sql-python", "duckdb_engine", "psycopg2"}}
    \cup {Conn("polars.io.database", "ODBCCursorProxy", "", "cursor", TRUE, "ok")}

\* batch_size arguments of to_polars: None, zero and a batch of two rows
BatchSizes == {NoneInt, 0, 2}

\* queries handed to execute: reads and writes, in upper, lower and mixed
\* case, behind comments, and as a Selectable
Queries ==
    {Query(TRUE, t) : t \in {"SELECT 1", "DROP TABLE t", "drop table t",
                             "Insert INTO t VALUES (1)", "/* c */ DELETE FROM t",
                             "/* DROP */ SELECT 1", "a; USE db"}}
    \cup {Query(FALSE, "DROP TABLE t")}

\* short-form texts are assembled from base texts and bracketed arguments
TextFragments ==
    {"i64", "str", "decimal", "datetime", "duration", "list", "foo",
     "[2]", "[10,2]", "[x]", "[μs]", "['ms']", "[ns, UTC]", "[us,UTC,x]",
     "[", "]", " "}

\* realizable scalar and simple parametric dtypes
ScalarDtypes ==
    {Int8, Int16, Int32, Int64, UInt8, UInt16, UInt32, UInt64, Float32,
     Float64, String, Binary, Boolean, Date, Time, Null, Object}

ParametricDtypes ==
    {DecimalOf(10, 2), DecimalOf(NoneInt, 2), DecimalOf(38, 0)}
    \cup {Datetime(u) : u \in TimeUnits}
    \cup {DatetimeTz(u, z) : u \in TimeUnits, z \in {"UTC", "Asia/Tokyo"}}
    \cup {DurationOf(u) : u \in TimeUnits}

ReprDtypes == ScalarDtypes \cup ParametricDtypes

\* Python values of every class the constructors are tested with
SampleValues ==
    {PyNone, PyVal("bool", "True"), PyVal("int", "1"), PyVal("float", "2.5"),
     PyVal("str", "5"), PyVal("str", "xyz"), PyVal("bytes", "d"),
     PyVal("date", "1970-01-02"), PyVal("datetime", "2000-01-01 12:00"),
     PyVal("time", "12:00"), PyVal("timedelta", "5:00:00")}

TargetDtypes ==
    {Int64, Float64, Boolean, Binary, String, Date, Time}
    \cup {Datetime(u) : u \in TimeUnits} \cup {DurationOf(u) : u \in TimeUnits}

\* the classes whose lenient conversion to the dtype the tests pin down
TestedKinds(d) ==
    CASE d.base \in {"Int64", "Float64"} ->
            {"NoneType", "bool", "int", "float", "date", "str"}
      [] d.base = "Boolean" ->
            {"NoneType", "bool", "int", "float", "date", "str"}
      [] d.base = "Binary" -> {"NoneType", "bytes", "str", "int", "bool"}
      [] d.base = "String" ->
            {"NoneType", "str", "int", "float", "date", "bool", "bytes"}
      [] d.base = "Date" ->
            {"NoneType", "str", "int", "float", "date", "datetime", "bool"}
      [] d.base \in {"Time", "Datetime", "Duration"} ->
            {"NoneType", "str", "int", "float", "date", "time", "datetime",
             "timedelta", "bool"}

ValueSeqs ==
    UNION {[1..n -> SampleValues] : n \in 1..MaxValues}

\* dtype classes and instances handed to dtype_to_py_type
DtypeInputs ==
    ScalarDtypes \cup ParametricDtypes
    \cup {Decimal, Duration, DatetimeClass, ListClass, Array, Categorical,
          Struct, Unknown}
    \cup {List(d) : d \in ScalarDtypes}
    \cup {List(List(d)) : d \in {Int64, String}}
    \cup {ArrayOf(d, w) : d \in ScalarDtypes, w \in {1, 3}}

\* the classes _map_py_type_to_dtype recognises directly, in the order of
\* its tests
NATIVE_TYPES ==
    <<"float", "int", "str", "bool", "datetime", "date", "timedelta", "time",
      "list", "tuple", "Decimal", "bytes", "object", "NoneType">>

ListOfInt == Alias("list", <<PyInt>>)

\* plain classes, builtin and typing aliases, unions and dtype classes
TypeSpecs ==
    {PyInt, PyClass("float"), PyClass("Timestamp"), PyClass("dict"),
     ListOfInt,                                           \* list[int]
     Alias("tuple", <<PyStr>>),                           \* tuple[str]
     Alias("list", <<Alias("tuple", <<ListOfInt>>)>>),    \* list[tuple[list[int]]]
     Alias("tuple", <<PyInt, PyStr>>),                    \* tuple[int, str]
     Alias("dict", <<PyStr, PyInt>>),                     \* dict[str, int]
     Alias("list", <<NoneObj>>),                          \* list[None]
     TypingAlias("list", <<PyInt>>),                      \* typing.List[int]
     TypingAlias("Union", <<PyInt, NoneType>>),           \* Optional[int]
     TypingAlias("Union", <<ListOfInt, NoneType>>),       \* Optional[list[int]]
     TypingAlias("Union", <<PyClass("dict"), NoneType>>), \* Optional[dict]
     TypingAlias("Union", <<DtypeSpec("Int64"), NoneType>>),
     TypingAlias("Union", <<PyInt, PyStr>>),              \* Union[int, str]
     TypingAlias("Union", <<PyInt, PyStr, NoneType>>),
     UnionType(<<PyInt, NoneType>>),                      \* int | None
     UnionType(<<PyInt, PyStr>>),                         \* int | str
     DtypeSpec("Int64")}

----------------------------------------------------------------------------
(* Calls of _infer_dtype_from_database_typename                            *)

InjectIdle ==
    /\ description = <<>>
    /\ user_overrides = EmptyDict
    /\ schema_overrides = EmptyDict
    /\ caller_mapping = EmptyDict
    /\ col = 0
    /\ dtype = NoneVal

InitTypeName ==
    /\ pc = "build"
    /\ name = ""
    /\ toks = <<>>
    /\ raise_unmatched = FALSE
    /\ outcome = Return(NoneVal)
    /\ frames = <<>>
    /\ InjectIdle
    /\ ExecutorIdle
    /\ ConvertIdle

\* the caller's type name grows by one fragment
AppendFragment ==
    /\ pc = "build"
    /\ Len(toks) < MaxFragments
    /\ \E words \in Vocabularies, t \in Fragments :
          /\ t \in words
          /\ \A i \in 1..Len(toks) : toks[i] \in words
          /\ name' = name \o t
          /\ toks' = Append(toks, t)
    /\ UNCHANGED <<pc, raise_unmatched, outcome, frames, description,
                   user_overrides, caller_mapping, schema_overrides, col, dtype>>
    /\ UNCHANGED <<executor_vars, convert_vars>>

\* _infer_dtype_from_database_typename(name, raise_unmatched=r)
CallInfer ==
    /\ pc = "build"
    /\ \E r \in BOOLEAN :
          /\ raise_unmatched' = r
          /\ outcome' = infer_dtype_from_database_typename(name, r)
    /\ pc' = "classified"
    /\ UNCHANGED <<name, toks, frames, description, user_overrides, caller_mapping,
                   schema_overrides, col, dtype>>
    /\ UNCHANGED <<executor_vars, convert_vars>>

NextTypeName == AppendFragment \/ CallInfer

SpecTypeName == InitTypeName /\ [][NextTypeName]_vars

----------------------------------------------------------------------------
(* ConnectionExecutor._inject_type_overrides(description, schema_overrides) *)

TypeNameIdle ==
    /\ name = ""
    /\ toks = <<>>
    /\ raise_unmatched = FALSE
    /\ outcome = Return(NoneVal)
    /\ frames = <<>>

InitInject ==
    /\ pc = "describe"
    /\ description = <<>>
    /\ user_overrides \in UserOverrides
    /\ schema_overrides = EmptyDict
    /\ caller_mapping = user_overrides
    /\ col = 0
    /\ dtype = NoneVal
    /\ TypeNameIdle
    /\ ExecutorIdle
    /\ ConvertIdle

\* the cursor reports one more column; a description is either all None
\* (sqlalchemy _metadata keys) or all tuples
AddColumn ==
    /\ pc = "describe"
    /\ Len(description) < MaxColumns
    /\ \E d \in Descriptors :
          /\ \A i \in 1..Len(description) : description[i].is_none = d.is_none
          /\ description' = Append(description, d)
    /\ UNCHANGED <<pc, name, toks, frames, raise_unmatched, outcome, user_overrides, caller_mapping,
                   schema_overrides, col, dtype>>
    /\ UNCHANGED <<executor_vars, convert_vars>>

\* database.py:320-323, `schema_overrides=(schema_overrides or {})`: the
\* mapping handed to _inject_type_overrides is the caller's own object
\* unless that is None or empty
is_callers_object(mapping) == mapping # EmptyDict

\* variant: the loop starts from an empty mapping
CallInject_from_empty ==
    /\ pc = "describe"
    /\ pc' = "loop"
    /\ col' = 1
    /\ dtype' = NoneVal
    /\ schema_overrides' = EmptyDict
    /\ UNCHANGED <<name, toks, frames, raise_unmatched, outcome, description,
                   user_overrides, caller_mapping>>
    /\ UNCHANGED <<executor_vars, convert_vars>>

\* entry of _inject_type_overrides: dtype = None, then the loop starts
CallInject ==
    /\ pc = "describe"
    /\ pc' = "loop"
    /\ col' = 1
    /\ dtype' = NoneVal
    /\ schema_overrides' = user_overrides
    /\ UNCHANGED <<name, toks, frames, raise_unmatched, outcome, description,
                   user_overrides, caller_mapping>>
    /\ UNCHANGED <<executor_vars, convert_vars>>

\* one iteration of `for nm, desc in description.items()`
LoopBody ==
    /\ pc = "loop"
    /\ col <= Len(description)
    /\ LET desc == description[col]
           nm == ColumnNames[col]
           r == resolve_type_code(desc.type_code, dtype)
           d == refine_dtype(r.val, desc.internal_size, desc.prec, desc.scale)
       IN IF desc.is_none \/ nm \in DOMAIN schema_overrides
          THEN /\ col' = col + 1
               /\ UNCHANGED <<pc, dtype, schema_overrides>>
          ELSE IF r.exc # ""
          THEN /\ pc' = "raised"
               /\ UNCHANGED <<col, dtype, schema_overrides>>
          ELSE /\ col' = col + 1
               /\ dtype' = d
               /\ schema_overrides' =
                     IF d.base # "None" THEN set_item(schema_overrides, nm, d)
                     ELSE schema_overrides
               /\ pc' = pc
    /\ caller_mapping' = IF is_callers_object(user_overrides)
                         THEN schema_overrides' ELSE caller_mapping
    /\ UNCHANGED <<name, toks, frames, raise_unmatched, outcome, description,
                   user_overrides>>
    /\ UNCHANGED <<executor_vars, convert_vars>>

\* return schema_overrides
ReturnOverrides ==
    /\ pc = "loop"
    /\ col > Len(description)
    /\ pc' = "returned"
    /\ UNCHANGED <<name, toks, frames, raise_unmatched, outcome, description, user_overrides, caller_mapping,
                   schema_overrides, col, dtype>>
    /\ UNCHANGED <<executor_vars, convert_vars>>

NextInject == AddColumn \/ CallInject \/ LoopBody \/ ReturnOverrides

SpecInject == InitInject /\ [][NextInject]_vars

----------------------------------------------------------------------------
(* ConnectionExecutor: construction, execute, to_polars, scope exit        *)

InitExecutor ==
    /\ pc = "new"
    /\ connection \in Connections
    /\ cx = NoExecutor
    /\ closed = {}
    /\ call = NoCall
    /\ gen = NoGen
    /\ TypeNameIdle
    /\ InjectIdle
    /\ ConvertIdle

\* ConnectionExecutor(connection)
Construct ==
    /\ pc = "new"
    /\ LET r == normalise_cursor(connection, driver_name_of(connection))
       IN IF r.error # ""
          THEN /\ pc' = "failed"
               /\ call' = [NoCall EXCEPT !.op = "init", !.error = r.error]
               /\ UNCHANGED cx
          ELSE /\ pc' = "open"
               /\ call' = [NoCall EXCEPT !.op = "init"]
               /\ cx' = [driver_name |-> r.driver_name, cursor |-> r.cursor,
                         can_close_cursor |-> r.can_close_cursor, result |-> "None"]
    /\ UNCHANGED <<connection, closed, gen, typename_vars, inject_vars, convert_vars>>

\* cx.execute(query, select_queries_only=...): the result is set unless the
\* query is refused or the cursor's execute method raises
Execute ==
    /\ pc = "open"
    /\ call.n < MaxCalls
    /\ \E query \in Queries, select_queries_only \in BOOLEAN, raised \in BOOLEAN :
          LET refused == is_invalid_query(query, select_queries_only)
              this == [NoCall EXCEPT !.op = "execute", !.n = call.n + 1,
                                     !.query = query,
                                     !.select_queries_only = select_queries_only]
          IN IF refused
             THEN /\ call' = [this EXCEPT !.error = "UnsuitableSQLError"]
                  /\ cx' = cx
             ELSE /\ call' = [this EXCEPT !.executed = TRUE,
                                          !.error = IF raised THEN "Exception" ELSE ""]
                  /\ cx' = IF raised THEN cx ELSE [cx EXCEPT !.result = "set"]
    /\ UNCHANGED <<pc, connection, closed, gen, typename_vars, inject_vars,
                   convert_vars>>

\* cx.to_polars(iter_batches=..., batch_size=...)
ToPolars ==
    /\ pc = "open"
    /\ call.n < MaxCalls
    /\ \E iter_batches \in BOOLEAN, batch_size \in BatchSizes :
          LET r == to_polars(connection, cx, iter_batches, batch_size)
          IN /\ call' = [NoCall EXCEPT !.op = "to_polars",
                                       !.iter_batches = iter_batches,
                                       !.batch_size = batch_size,
                                       !.error = r.error,
                                       !.fetched = r.fetched,
                                       !.n = call.n + 1]
             /\ cx' = [cx EXCEPT !.can_close_cursor = r.can_close_cursor]
    /\ UNCHANGED <<pc, connection, closed, gen, typename_vars, inject_vars,
                   convert_vars>>

\* ConnectionExecutor.__exit__, also when the body raised
Exit ==
    /\ pc = "open"
    /\ pc' = "exited"
    /\ closed' = IF cx.can_close_cursor /\ cursor_has_close(connection, cx.cursor)
                 THEN closed \cup {cx.cursor}
                 ELSE closed
    /\ UNCHANGED <<connection, cx, call, gen, typename_vars, inject_vars,
                   convert_vars>>

NextExecutor == Construct \/ Execute \/ ToPolars \/ Exit

SpecExecutor == InitExecutor /\ [][NextExecutor]_vars

----------------------------------------------------------------------------
(* Calls of dtype_short_repr_to_dtype, on assembled texts and on the       *)
(* canonical text of a dtype                                               *)

InitShortRepr ==
    /\ \/ pc = "text" /\ arg = NoneVal
       \/ pc = "dtype" /\ arg \in ReprDtypes
    /\ cache = <<>>
    /\ ncalls = 0
    /\ series = NoSeries
    /\ TypeNameIdle
    /\ InjectIdle
    /\ ExecutorIdle

\* the caller's text grows by one fragment
AppendTextFragment ==
    /\ pc = "text"
    /\ arg = NoneVal
    /\ Len(toks) < MaxTextFragments
    /\ \E t \in TextFragments :
          /\ name' = name \o t
          /\ toks' = Append(toks, t)
    /\ UNCHANGED <<pc, frames, raise_unmatched, outcome, arg>>
    /\ UNCHANGED <<inject_vars, executor_vars, cache, ncalls, series>>

\* the canonical short text of the dtype
FormatDtype ==
    /\ pc = "dtype"
    /\ name' = dtype_str_repr(arg)
    /\ pc' = "text"
    /\ UNCHANGED <<toks, frames, raise_unmatched, outcome, arg>>
    /\ UNCHANGED <<inject_vars, executor_vars, cache, ncalls, series>>

\* dtype_short_repr_to_dtype(name)
ParseShortRepr ==
    /\ pc = "text"
    /\ outcome' = dtype_short_repr_to_dtype(name)
    /\ pc' = "parsed"
    /\ UNCHANGED <<name, toks, frames, raise_unmatched, arg>>
    /\ UNCHANGED <<inject_vars, executor_vars, cache, ncalls, series>>

NextShortRepr == AppendTextFragment \/ FormatDtype \/ ParseShortRepr

SpecShortRepr == InitShortRepr /\ [][NextShortRepr]_vars

----------------------------------------------------------------------------
(* Calls of _map_py_type_to_dtype and py_type_to_dtype on one process-wide *)
(* cache: the native classes in order, then any type spec                  *)

InitPyType ==
    /\ pc = "map"
    /\ TypeNameIdle
    /\ InjectIdle
    /\ ExecutorIdle
    /\ ConvertIdle

\* _map_py_type_to_dtype on the next native class
WarmUp ==
    /\ pc \in {"map", "mapped"}
    /\ ncalls = 0
    /\ Len(cache) < Len(NATIVE_TYPES)
    /\ LET t == PyClass(NATIVE_TYPES[Len(cache) + 1])
           r == lru_call(cache, t)
       IN /\ arg' = t
          /\ cache' = r.cache
          /\ outcome' = r.out
    /\ pc' = "mapped"
    /\ UNCHANGED <<name, toks, frames, raise_unmatched, ncalls>>
    /\ UNCHANGED <<inject_vars, executor_vars, series>>

\* _map_py_type_to_dtype(t)
CallMap ==
    /\ pc \in {"map", "mapped", "converted"}
    /\ ncalls < MaxMapCalls
    /\ \E t \in TypeSpecs :
          LET r == lru_call(cache, t)
          IN /\ arg' = t
             /\ cache' = r.cache
             /\ outcome' = r.out
    /\ pc' = "mapped"
    /\ ncalls' = ncalls + 1
    /\ UNCHANGED <<name, toks, frames, raise_unmatched>>
    /\ UNCHANGED <<inject_vars, executor_vars, series>>

\* py_type_to_dtype(t, raise_unmatched=ru)
CallPyTypeToDtype ==
    /\ pc \in {"map", "mapped", "converted"}
    /\ ncalls < MaxMapCalls
    /\ \E t \in TypeSpecs, ru \in BOOLEAN :
          LET r == py_type_to_dtype(cache, t, ru)
          IN /\ arg' = t
             /\ raise_unmatched' = ru
             /\ cache' = r.cache
             /\ outcome' = r.out
    /\ pc' = "converted"
    /\ ncalls' = ncalls + 1
    /\ UNCHANGED <<name, toks, frames>>
    /\ UNCHANGED <<inject_vars, executor_vars, series>>

\* dtype_to_py_type(dtype) on the dtype _map_py_type_to_dtype returned
CallDtypeToPyTypeBack ==
    /\ pc = "mapped"
    /\ outcome.exc = ""
    /\ outcome' = dtype_to_py_type(outcome.val)
    /\ pc' = "mapped_back"
    /\ UNCHANGED <<name, toks, frames, raise_unmatched>>
    /\ UNCHANGED <<inject_vars, executor_vars, convert_vars>>

NextPyType == WarmUp \/ CallMap \/ CallPyTypeToDtype \/ CallDtypeToPyTypeBack

SpecPyType == InitPyType /\ [][NextPyType]_vars

----------------------------------------------------------------------------
(* Calls of dtype_to_py_type                                               *)

InitDtypeToPy ==
    /\ pc = "dtype_in"
    /\ arg \in DtypeInputs
    /\ cache = <<>>
    /\ ncalls = 0
    /\ series = NoSeries
    /\ TypeNameIdle
    /\ InjectIdle
    /\ ExecutorIdle

\* dtype_to_py_type(arg)
CallDtypeToPyType ==
    /\ pc = "dtype_in"
    /\ outcome' = dtype_to_py_type(arg)
    /\ pc' = "py_type"
    /\ UNCHANGED <<name, toks, frames, raise_unmatched>>
    /\ UNCHANGED <<inject_vars, executor_vars, convert_vars>>

NextDtypeToPy == CallDtypeToPyType

SpecDtypeToPy == InitDtypeToPy /\ [][NextDtypeToPy]_vars

----------------------------------------------------------------------------
(* Construction of a series from Python values, value by value             *)

InitSeries ==
    /\ pc \in {"typed", "untyped"}
    /\ \E vs \in ValueSeqs, strict \in BOOLEAN, d \in TargetDtypes :
          /\ (pc = "typed" /\ ~strict) =>
                /\ d.params \in {<<>>, <<"us">>}
                /\ \A i \in 1..Len(vs) : vs[i].kind \in TestedKinds(d)
          /\ series = [values |-> vs,
                       dtype |-> IF pc = "typed" THEN d ELSE NoneVal,
                       given |-> pc = "typed", strict |-> strict,
                       result |-> <<>>, error |-> ""]
    /\ arg = NoneVal
    /\ cache = <<>>
    /\ ncalls = 0
    /\ TypeNameIdle
    /\ InjectIdle
    /\ ExecutorIdle

\* new_from_any_values: the dtype is taken from the values
InferDtype ==
    /\ pc = "untyped"
    /\ series' = [series EXCEPT
                    !.dtype = infer_series_dtype(series.values, series.strict)]
    /\ pc' = "typed"
    /\ UNCHANGED <<typename_vars, inject_vars, executor_vars, arg, cache, ncalls>>

\* the next value goes into the series, or fails the construction
CoerceValue ==
    /\ pc = "typed"
    /\ LET i == Len(series.result) + 1
           r == coerce_value(series.values[i], series.dtype, series.strict)
       IN IF r.exc # ""
          THEN /\ series' = [series EXCEPT !.error = r.exc]
               /\ pc' = "failed"
          ELSE /\ series' = [series EXCEPT !.result = Append(@, r.val)]
               /\ pc' = IF i = Len(series.values) THEN "built" ELSE "typed"
    /\ UNCHANGED <<typename_vars, inject_vars, executor_vars, arg, cache, ncalls>>

NextSeries == InferDtype \/ CoerceValue

SpecSeries == InitSeries /\ [][NextSeries]_vars

----------------------------------------------------------------------------

----------------------------------------------------------------------------
(* ConnectionExecutor._fetchmany_rows and the repeat_batch_calls loop of   *)
(* ConnectionExecutor._fetch_arrow, drained by their consumer              *)

\* a row as the cursor hands it out: a tuple, a list or a driver Row object
Row(kind, id) == [kind |-> kind, id |-> id]

\* the batches a fetch call can return; the empty one among them
Batches ==
    {<<>>, <<Row("tuple", 1)>>, <<Row("Row", 2)>>,
     <<Row("tuple", 1), Row("Row", 2)>>, <<Row("Row", 2), Row("list", 3)>>}

\* what the cursor is going to return, call after call; once that is used
\* up every further call returns the empty batch
Cursors == UNION {[1..n -> Batches] : n \in 0..MaxBatches}

\* the two generators
Fetchers == {"_fetchmany_rows", "_fetch_arrow"}

\* tuple(row)
tuple(row) == Row("tuple", row.id)

\* database.py:256-259: rows are passed on as they are when the first one is
\* a list or a tuple, and as tuples otherwise; Arrow data is passed on as it
\* is (database.py:236)
yielded_value(fetcher, rows) ==
    IF fetcher = "_fetch_arrow" \/ rows[1].kind \in {"list", "tuple"} THEN rows
    ELSE [i \in 1..Len(rows) |-> tuple(rows[i])]

\* variant: a batch of a single row ends the loop
after_fetch_short_batch_ends(rows) ==
    IF Len(rows) < 2 THEN "done" ELSE "yield"

\* `if not rows: break`, `if not arrow: break`
after_fetch(rows) ==
    IF rows = <<>> THEN "done" ELSE "yield"

InitFetch ==
    /\ pc = "iterate"
    /\ \E fetcher \in Fetchers, cursor \in Cursors :
          gen = [fetcher |-> fetcher, cursor |-> cursor, at |-> "fetch",
                 nfetch |-> 0, rows |-> <<>>, yielded |-> <<>>]
    /\ connection = NoConnection
    /\ cx = NoExecutor
    /\ closed = {}
    /\ call = NoCall
    /\ TypeNameIdle
    /\ InjectIdle
    /\ ConvertIdle

\* rows = result.fetchmany(batch_size), arrow = fetchmany_arrow(size)
FetchMany ==
    /\ pc = "iterate"
    /\ gen.at = "fetch"
    /\ LET rows == IF gen.nfetch < Len(gen.cursor)
                   THEN gen.cursor[gen.nfetch + 1] ELSE <<>>
       IN gen' = [gen EXCEPT !.nfetch = gen.nfetch + 1,
                             !.rows = rows,
                             !.at = after_fetch(rows)]
    /\ UNCHANGED <<pc, connection, cx, closed, call>>
    /\ UNCHANGED <<typename_vars, inject_vars, convert_vars>>

\* the batch goes to the consumer, which asks for the next one
YieldBatch ==
    /\ pc = "iterate"
    /\ gen.at = "yield"
    /\ gen' = [gen EXCEPT
                  !.yielded = Append(gen.yielded, yielded_value(gen.fetcher, gen.rows)),
                  !.at = "fetch"]
    /\ UNCHANGED <<pc, connection, cx, closed, call>>
    /\ UNCHANGED <<typename_vars, inject_vars, convert_vars>>

\* break: the generator is exhausted
StopIteration ==
    /\ pc = "iterate"
    /\ gen.at = "done"
    /\ pc' = "exhausted"
    /\ UNCHANGED <<connection, cx, closed, call, gen>>
    /\ UNCHANGED <<typename_vars, inject_vars, convert_vars>>

NextFetch == FetchMany \/ YieldBatch \/ StopIteration

\* the consumer (list(...) in _from_rows, the frame generator of
\* _from_arrow) keeps asking for the next batch
SpecFetch == InitFetch /\ [][NextFetch]_vars /\ WF_vars(NextFetch)

----------------------------------------------------------------------------
(* _infer_dtype_from_database_typename, call by call: the array rule and   *)
(* the calls it makes on the element type and on the modifier              *)

\* fragments of nested array type names
NestedWords ==
    {"ARRAY<", ">", "INT", "INT[]", "[]", "ß", "LIST OF ", "(INT[])", "ARRAY"}

NestedToks == UNION {[1..n -> NestedWords] : n \in 0..MaxNesting}

RECURSIVE concat(_)
concat(ts) == IF ts = <<>> THEN "" ELSE Head(ts) \o concat(Tail(ts))

\* one call of the function: its arguments and the call it is at
Frame(value, raise_flag) ==
    [value |-> value, raise_unmatched |-> raise_flag, at |-> "start"]

\* the running call, its normalised value and modifier, and the value with
\* the array aliases taken out
Running == frames[Len(frames)]
RunningParts == extract_modifier(normalise(Running.value))
RunningStripped == strip_array_aliases(RunningParts.value)

\* the running call goes on in its caller
Resume(at) == [frames EXCEPT ![Len(frames)].at = at]

InitRecursion ==
    /\ pc = "call"
    /\ toks \in NestedToks
    /\ name = concat(toks)
    /\ raise_unmatched \in BOOLEAN
    /\ frames = <<Frame(name, raise_unmatched)>>
    /\ outcome = Return(NoneVal)
    /\ InjectIdle
    /\ ExecutorIdle
    /\ ConvertIdle

\* the next thing the running call does: the call on the element type, the
\* call on the modifier (the value is empty, or the element type was not
\* recognised), or its return
InnerDue ==
    /\ Running.at = "start"
    /\ is_array(RunningParts.value)
    /\ RunningStripped # ""

ModifierDue ==
    /\ RunningParts.modifier # ""
    /\ \/ /\ Running.at = "start"
          /\ is_array(RunningParts.value)
          /\ RunningStripped = ""
       \/ /\ Running.at = "inner"
          /\ outcome = Return(NoneVal)

ReturnDue ==
    \/ Running.at = "start" /\ ~is_array(RunningParts.value)
    \/ /\ Running.at = "start"
       /\ RunningStripped = ""
       /\ RunningParts.modifier = ""
    \/ /\ Running.at = "inner"
       /\ outcome # Return(NoneVal) \/ RunningParts.modifier = ""
    \/ Running.at = "modifier"

\* convert.py:198-204: the call on the element type
RecurseInner ==
    /\ pc = "call"
    /\ Len(frames) < MaxDepth
    /\ InnerDue
    /\ frames' = Append(Resume("inner"),
                        Frame(array_inner_text(RunningStripped), FALSE))
    /\ UNCHANGED <<pc, name, toks, raise_unmatched, outcome>>
    /\ UNCHANGED <<inject_vars, executor_vars, convert_vars>>

\* convert.py:192-196 and 205-209: the call on the modifier, made when the
\* value is empty or the element type was not recognised
RecurseModifier ==
    /\ pc = "call"
    /\ Len(frames) < MaxDepth
    /\ ModifierDue
    /\ frames' = Append(Resume("modifier"), Frame(RunningParts.modifier, FALSE))
    /\ UNCHANGED <<pc, name, toks, raise_unmatched, outcome>>
    /\ UNCHANGED <<inject_vars, executor_vars, convert_vars>>

\* what the running call hands to its caller when it makes no further call
Result ==
    IF Running.at = "start" /\ ~is_array(RunningParts.value)
    THEN classify_scalar(RunningParts.value, RunningParts.modifier)
    ELSE IF Running.at = "start"
    THEN Raised("IndexError")  \* value[0] of the empty string
    ELSE list_of(outcome)

\* the running call returns or raises
ReturnDtype ==
    /\ pc = "call"
    /\ ReturnDue
    /\ outcome' = raise_or_return(Result, Running.raise_unmatched)
    /\ frames' = SubSeq(frames, 1, Len(frames) - 1)
    /\ pc' = IF Len(frames) = 1 THEN "classified" ELSE "call"
    /\ UNCHANGED <<name, toks, raise_unmatched>>
    /\ UNCHANGED <<inject_vars, executor_vars, convert_vars>>

NextRecursion == RecurseInner \/ RecurseModifier \/ ReturnDtype

\* a step of the interpreter is possible: pc = "call" is ENABLED of the
\* next-state relation
CanStep ==
    /\ pc = "call"
    /\ ReturnDue \/ (Len(frames) < MaxDepth /\ (InnerDue \/ ModifierDue))

\* the interpreter goes on running a call that has a step to take: weak
\* fairness of NextRecursion, WF_vars(NextRecursion), with ENABLED written
\* out as CanStep
SpecRecursion ==
    /\ InitRecursion /\ [][NextRecursion]_vars
    /\ []<>(~CanStep) \/ []<><<NextRecursion>>_vars

Init ==
    \/ InitTypeName \/ InitInject \/ InitExecutor
    \/ InitShortRepr \/ InitPyType \/ InitDtypeToPy \/ InitSeries
    \/ InitRecursion \/ InitFetch

Next ==
    \/ NextTypeName \/ NextInject \/ NextExecutor
    \/ NextShortRepr \/ NextPyType \/ NextDtypeToPy \/ NextSeries
    \/ NextRecursion \/ NextFetch

Spec == Init /\ [][Next]_vars

----------------------------------------------------------------------------
(* Properties of _infer_dtype_from_database_typename (SpecTypeName)        *)

Classified == pc = "classified"

\* the normalised value and the modifier the rules see for `name`
Norm == extract_modifier(normalise(name))

\* the call found no dtype: None, or ValueError when raise_unmatched
NoMatch ==
    IF raise_unmatched THEN outcome = Raise("ValueError") ELSE outcome = Return(NoneVal)

\* the first rule of the ordered chain that claims the value v
ReachesIntegerRule(v) == ~is_array(v) /\ ~is_float(v) /\ is_integer(v)

ReachesDecimalRule(v) ==
    ~is_array(v) /\ ~is_float(v) /\ ~is_integer(v) /\ is_decimal(v)

ReachesTemporalRule(v) ==
    /\ ~is_array(v) /\ ~is_float(v) /\ ~is_integer(v) /\ ~is_decimal(v)
    /\ ~is_string(v) /\ ~is_binary(v) /\ ~is_boolean(v)
    /\ startswith(v, "DATETIME") \/ startswith(v, "TIMESTAMP")

\* C2: with raise_unmatched true the call never returns None: a name that
\* yields no logical type makes it fail with ValueError.
C2_StrictNeverReturnsNone ==
    (Classified /\ raise_unmatched) =>
        ~(outcome.exc = "" /\ outcome.val.base = "None")

\* C3: with raise_unmatched false the call raises no exception, whatever the
\* markers, brackets or modifier of the name: it returns a dtype or None.
C3_LenientNeverRaises ==
    (Classified /\ ~raise_unmatched) => outcome.exc = ""

\* C4 as stated: 'TINYINT UNSIGNED' gives UInt8, 'BIGINT' gives Int64 and
\* 'INT4' gives Int32.
C4_Original ==
    Classified =>
        /\ name = "TINYINT UNSIGNED" => outcome = Return(UInt8)
        /\ name = "BIGINT" => outcome = Return(Int64)
        /\ name = "INT4" => outcome = Return(Int32)

\* C4 amended: 'BIGINT' gives Int64 and 'INT4' gives Int32, while
\* 'TINYINT UNSIGNED' neither starts with INT/UINT/UNSIGNED nor ends with
\* INT/SERIAL, so no rule matches it (None, or ValueError when raise_unmatched).
C4_IntegerExamples ==
    Classified =>
        /\ name = "TINYINT UNSIGNED" => NoMatch
        /\ name = "BIGINT" => outcome = Return(Int64)
        /\ name = "INT4" => outcome = Return(Int32)

C4_Witness ==
    /\ Classified
    /\ name = "TINYINT UNSIGNED"
    /\ ~raise_unmatched
    /\ outcome = Return(NoneVal)

\* the fixed-width integer table with its Int64 / UInt64 default
C5_Lookup(bits, unsigned) ==
    LET width == CASE bits = 8 -> "8" [] bits = 16 -> "16" [] bits = 32 -> "32"
                   [] OTHER -> "64"
    IN DT((IF unsigned THEN "UInt" ELSE "Int") \o width)

C5_Unsigned(v) ==
    \/ contains(v, "U") /\ ~contains(v, "MEDIUM")
    \/ contains(v, "UNSIGNED")
    \/ v = "ROWID"

C5_ModifierBits(m) == IF isdigit(m) THEN digits_value(m) ELSE 0

\* the width as C5 states it: every test is a substring test
C5_SubstringBits(v, m) ==
    IF contains(v, "LARGE") \/ contains(v, "BIG") \/ contains(v, "INT8") THEN 64
    ELSE IF contains(v, "MEDIUM") \/ contains(v, "INT4") \/ contains(v, "SERIAL") THEN 32
    ELSE IF contains(v, "SMALL") \/ contains(v, "INT2") THEN 16
    ELSE IF contains(v, "TINY") THEN 8
    ELSE C5_ModifierBits(m)

\* the width as amended: BIG is a prefix test, INT8/INT4/SERIAL/INT2 are
\* tests on the whole name
C5_ExactBits(v, m) ==
    IF contains(v, "LARGE") \/ startswith(v, "BIG") \/ v = "INT8" THEN 64
    ELSE IF contains(v, "MEDIUM") \/ v = "INT4" \/ v = "SERIAL" THEN 32
    ELSE IF contains(v, "SMALL") \/ v = "INT2" THEN 16
    ELSE IF contains(v, "TINY") THEN 8
    ELSE C5_ModifierBits(m)

\* C5 as stated: for a name classified by the integer rule the width is 64
\* if it contains LARGE, BIG or INT8, else 32 if it contains MEDIUM, INT4 or
\* SERIAL, else 16 if it contains SMALL or INT2, else 8 if it contains TINY,
\* else the numeric modifier; width and signedness are looked up in the
\* integer table, Int64 / UInt64 when the width is indeterminate or unmapped.
C5_Original ==
    Classified =>
        LET n == Norm
        IN ReachesIntegerRule(n.value) =>
               outcome = Return(C5_Lookup(C5_SubstringBits(n.value, n.modifier),
                                          C5_Unsigned(n.value)))

\* C5 amended: the same order of tests, but 64 needs LARGE as a substring,
\* BIG as a prefix or the name INT8; 32 needs MEDIUM as a substring or the
\* name INT4 or SERIAL; 16 needs SMALL as a substring or the name INT2; 8
\* needs TINY as a substring; otherwise the all-digit modifier. The lookup
\* and its Int64 / UInt64 default are as stated.
C5_IntegerWidth ==
    Classified =>
        LET n == Norm
        IN ReachesIntegerRule(n.value) =>
               outcome = Return(C5_Lookup(C5_ExactBits(n.value, n.modifier),
                                          C5_Unsigned(n.value)))

C5_Witness ==
    /\ Classified
    /\ name = "TINYSERIAL"
    /\ outcome = Return(Int8)

C7_PrecisionScale(m) ==
    LET i == find(m, ",")
    IN /\ count(m, ",") = 1
       /\ int_ok(SubSeq(m, 1, i - 1))
       /\ int_ok(SubSeq(m, i + 1, Len(m)))

C8_IsScalarText(s) ==
    /\ s # ""
    /\ \A ch \in {"[", "]", "<", ">"} : ~contains(s, ch)
    /\ \A a \in {"ARRAY", "LIST"} : ~contains(sub_nonword(s), a)

\* C8 as stated: a scalar type name followed by a single '[]' is a List of
\* the scalar's type, the scalar's size modifier being ignored.
C8_Original ==
    (Classified /\ endswith(name, "[]")) =>
        LET text == normalise(SubSeq(name, 1, Len(name) - 2))
            scalar == infer_dtype_from_database_typename(
                          extract_modifier(text).value, FALSE)
        IN (C8_IsScalarText(text) /\ scalar.exc = "" /\ scalar.val.base # "None") =>
               outcome = Return(List(scalar.val))

\* C8 amended: a scalar type name followed by a single '[]' is List(inner),
\* inner being the classification of the scalar text with any ' OF '
\* separator and every non-word character removed, so the characters of a
\* parenthesised modifier are joined to the name instead of being ignored
\* ('INTEGER[]' gives List(Int64), 'VARCHAR(64)[]' gives List(String), but
\* 'SERIAL(64)[]' is classified as SERIAL64 and matches nothing); when that
\* text is not classified the name matches nothing.
C8_ArrayOfScalar ==
    (Classified /\ endswith(name, "[]")) =>
        LET text == normalise(SubSeq(name, 1, Len(name) - 2))
            inner == infer_dtype_from_database_typename(
                         sub_nonword(sub_of(text)), FALSE)
        IN C8_IsScalarText(text) =>
               IF inner.exc = "" /\ inner.val.base # "None"
               THEN outcome = Return(List(inner.val))
               ELSE NoMatch

C8_Witness ==
    /\ Classified
    /\ name = "VARCHAR(64)[]"
    /\ outcome = Return(List(String))

----------------------------------------------------------------------------
(* Properties of _inject_type_overrides (SpecInject)                       *)

C1_Description ==
    <<Desc(StrCode("INTEGER"), 4, NoneInt, NoneInt),
      Desc(StrCode("VARCHAR(255)"), NoneInt, NoneInt, NoneInt),
      Desc(StrCode("NUMERIC"), NoneInt, 10, 2)>>

C1_Returned ==
    /\ pc = "returned"
    /\ description = C1_Description
    /\ user_overrides = EmptyDict

\* C1 as stated: for the columns id ('INTEGER', internal_size 4), name
\* ('VARCHAR(255)') and amt ('NUMERIC', precision 10, scale 2), without user
\* overrides, the schema is {id: Int32, name: String, amt: Decimal(10,2)}.
C1_Original ==
    C1_Returned =>
        /\ DOMAIN schema_overrides = {"id", "name", "amt"}
        /\ schema_overrides["id"] = Int32
        /\ schema_overrides["name"] = String
        /\ schema_overrides["amt"] = DecimalOf(10, 2)

\* C1 amended: for the same three columns the schema is
\* {id: Int32, name: String, amt: Float64}: 'NUMERIC' without a comma modifier
\* is classified Float64, and precision and scale refine only a Decimal.
C1_EndToEnd ==
    C1_Returned =>
        /\ DOMAIN schema_overrides = {"id", "name", "amt"}
        /\ schema_overrides["id"] = Int32
        /\ schema_overrides["name"] = String
        /\ schema_overrides["amt"] = Float64

C1_Witness ==
    /\ C1_Returned
    /\ "amt" \in DOMAIN schema_overrides
    /\ schema_overrides["amt"] = Float64

\* the columns the loop has gone through
Processed == 1..(col - 1)

\* the column is resolved by the loop: it has a descriptor and the caller
\* gave no override for it
Resolved(i) ==
    /\ ~description[i].is_none
    /\ ColumnNames[i] \notin DOMAIN user_overrides

\* the dtype the column's own type_code gives
OwnDtype(i) == resolve_type_code(description[i].type_code, NoneVal)

\* C9: a column whose type code resolves to Float64 is recorded as Float32
\* when its internal_size is 4 and as Float64 when internal_size is 8 or
\* absent.
C9_FloatNarrowing ==
    \A i \in Processed :
        (Resolved(i) /\ OwnDtype(i) = Return(Float64)) =>
            /\ ColumnNames[i] \in DOMAIN schema_overrides
            /\ description[i].internal_size = 4 =>
                  schema_overrides[ColumnNames[i]] = Float32
            /\ description[i].internal_size \in {8, NoneInt} =>
                  schema_overrides[ColumnNames[i]] = Float64

C9_Witness ==
    \E i \in Processed :
        /\ Resolved(i)
        /\ OwnDtype(i) = Return(Float64)
        /\ description[i].internal_size = 4
        /\ ColumnNames[i] \in DOMAIN schema_overrides
        /\ schema_overrides[ColumnNames[i]] = Float32

\* C10: each column is resolved independently: the override of a column
\* depends only on its own descriptor, and a column whose type code cannot
\* be mapped receives no override, whatever columns came before it.
C10_ColumnsIndependent ==
    \A i \in Processed :
        Resolved(i) =>
            LET own == refine_dtype(OwnDtype(i).val, description[i].internal_size,
                                    description[i].prec, description[i].scale)
            IN IF OwnDtype(i).exc # "" \/ own.base = "None"
               THEN ColumnNames[i] \notin DOMAIN schema_overrides
               ELSE /\ ColumnNames[i] \in DOMAIN schema_overrides
                    /\ schema_overrides[ColumnNames[i]] = own

\* C11: a column name present in the caller's schema_overrides keeps the
\* caller's dtype: once _inject_type_overrides is entered the entry is never
\* replaced or removed, whatever the description says about that column.
C11_UserOverridesKept ==
    pc \in {"loop", "raised", "returned"} =>
        \A k \in DOMAIN user_overrides :
            /\ k \in DOMAIN schema_overrides
            /\ schema_overrides[k] = user_overrides[k]

C11_Witness ==
    /\ pc = "returned"
    /\ \E i \in 1..Len(description) :
          /\ ColumnNames[i] \in DOMAIN user_overrides
          /\ ~description[i].is_none
          /\ OwnDtype(i) = Return(Int64)
          /\ description[i].internal_size = 4
          /\ schema_overrides[ColumnNames[i]] = UserDtype

----------------------------------------------------------------------------
(* Properties of ConnectionExecutor (SpecExecutor)                         *)

\* C12: across construction, execute, to_polars and scope exit, close() is
\* called only on a cursor the executor itself created from the connection;
\* the caller's own object, or a cursor it holds, is never closed.
C12_OnlyOwnCursorClosed == closed \subseteq {"created"}

\* the scope is left after to_polars returned a frame (or its generator)
QueryCompleted ==
    /\ pc = "exited"
    /\ cx.result = "set"
    /\ call.op = "to_polars"
    /\ call.error = ""

\* C13: if the executor created a cursor from the caller's connection, that
\* cursor is closed when the query completes, at exit of the executor scope,
\* for every driver and for both values of iter_batches.
C13_CreatedCursorClosed ==
    (QueryCompleted /\ cx.cursor = "created") => "created" \in closed

\* C14: to_polars raises RuntimeError when no query has been executed, and
\* ValueError when iter_batches is true without a non-zero batch_size; the
\* unset-result check comes first, and in both cases no fetch method is
\* called.
C14_ToPolarsErrors ==
    call.op = "to_polars" =>
        /\ cx.result = "None" =>
              call.error = "RuntimeError" /\ call.fetched = {}
        /\ (cx.result # "None" /\ call.iter_batches /\ call.batch_size \in {NoneInt, 0}) =>
              call.error = "ValueError" /\ call.fetched = {}

C14_Witness ==
    /\ call.op = "to_polars"
    /\ cx.result = "None"
    /\ call.iter_batches
    /\ call.batch_size = 0
    /\ call.error = "RuntimeError"
    /\ call.fetched = {}

----------------------------------------------------------------------------
(* Properties of dtype_short_repr_to_dtype (SpecShortRepr)                 *)

\* the parser was applied to the canonical text of the dtype `arg`
RoundTripped == pc = "parsed" /\ arg # NoneVal

\* C15: for every realizable scalar and simple parametric dtype T, parsing the
\* canonical short text of T gives T back, parameters included.
C15_RoundTrip == RoundTripped => outcome = Return(arg)

\* C16: dtype_short_repr_to_dtype never fails: a known base text whose
\* bracketed arguments cannot construct the type gives the un-parameterised
\* base type, and a text that does not match the grammar or names no known
\* type gives None.
C16_ParserNeverFails ==
    (pc = "parsed" /\ arg = NoneVal) =>
        LET m == match_short_repr(name)
            cls == REPR_TO_DTYPE_get(m.base)
        IN /\ outcome.exc = ""
           /\ (~m.matched \/ cls = NoneVal) => outcome = Return(NoneVal)
           /\ (m.matched /\ cls # NoneVal) => eq_class(outcome.val, cls)

----------------------------------------------------------------------------
(* Properties of _map_py_type_to_dtype and py_type_to_dtype (SpecPyType)   *)

\* the outcome of the function body on an empty cache
Uncached(t) == map_body(<<>>, t).out

Inferable(t) == Uncached(t).exc = ""

\* C17: for a generic annotation that exposes an origin and type arguments,
\* whose origin and arguments can each be inferred, the result is the
\* origin's dtype applied to the inferred type of the one argument
\* (list[int] gives List(Int64)), or to the tuple of the inferred types of
\* several arguments.
C17_GenericInference ==
    (/\ pc = "mapped"
     /\ has_origin_and_args(arg)
     /\ Inferable(PyClass(arg.v))
     /\ \A i \in 1..Len(arg.args) : Inferable(arg.args[i])) =>
        outcome = Return([base |-> Uncached(PyClass(arg.v)).val.base,
                          params |-> [i \in 1..Len(arg.args) |->
                                         Uncached(arg.args[i]).val]])

\* C18: py_type_to_dtype resolves a union with exactly one non-None branch
\* to the type inferred for that branch; for a union with several non-None
\* branches it raises ValueError when raise_unmatched is true and returns
\* None when it is false.
C18_UnionCollapse ==
    (pc = "converted" /\ is_union(arg)) =>
        LET p == possible_types(arg)
        IN /\ (Len(p) = 1 /\ Inferable(p[1])) =>
                  outcome = Return(Uncached(p[1]).val)
           /\ (Len(p) > 1 \/ (Len(p) = 1 /\ ~Inferable(p[1]))) =>
                  outcome = IF raise_unmatched THEN Raise("ValueError")
                            ELSE Return(NoneVal)

C18_Witness ==
    /\ pc = "converted"
    /\ arg = TypingAlias("Union", <<ListOfInt, NoneType>>)
    /\ outcome = Return(List(Int64))

\* C19: the cache never holds more than 16 entries, every entry and every
\* call's outcome is what the computation on an empty cache gives for the
\* spec, and a spec whose inference fails is never stored.
C19_CacheCoherent ==
    /\ Len(cache) <= 16
    /\ \A i \in 1..Len(cache) :
          /\ Inferable(cache[i].key)
          /\ cache[i].val = Uncached(cache[i].key).val
          /\ \A j \in 1..Len(cache) : cache[j].key = cache[i].key => j = i
    /\ pc = "mapped" => outcome = Uncached(arg)

\* float was stored, evicted by the entries of a nested alias, and asked again
C19_Witness ==
    /\ pc = "mapped"
    /\ ncalls = 2
    /\ arg = PyClass("float")
    /\ outcome = Return(Float64)
    /\ Len(cache) = 16
    /\ PyClass("str") \notin cache_keys(cache)
    /\ PyClass("float") \in cache_keys(cache)

----------------------------------------------------------------------------
(* Properties of dtype_to_py_type (SpecDtypeToPy)                          *)

\* the scalar logical types of the data model, with List and Array
C20_Covered ==
    {"Int8", "Int16", "Int32", "Int64", "UInt8", "UInt16", "UInt32", "UInt64",
     "Float32", "Float64", "Boolean", "Binary", "String", "Object", "Null",
     "Decimal", "Datetime", "Duration", "Date", "Time", "List", "Array"}

\* C20: dtype_to_py_type returns a host type for every scalar logical type
\* and for List and Array, as a class or as a parameterised instance: list
\* for List and Array, NoneType for Null.
C20_TotalOverDataModel ==
    (pc = "py_type" /\ arg.base \in C20_Covered) =>
        /\ outcome.exc = ""
        /\ outcome = dtype_to_py_type(DT(arg.base))
        /\ arg.base \in {"List", "Array"} => outcome.val = PyClass("list")
        /\ arg.base = "Null" => outcome.val = PyClass("NoneType")

----------------------------------------------------------------------------
(* Properties of series construction from Python values (SpecSeries)       *)

\* the value the construction is about to take, or failed on
NextValue == series.values[Len(series.result) + 1]

\* C21: in strict mode with an explicit dtype, values already of the dtype
\* (and None) are returned unchanged, and a value of any other kind raises
\* SchemaError: the series is built only from values of exactly the dtype.
C21_StrictExact ==
    (series.given /\ series.strict) =>
        /\ \A i \in 1..Len(series.result) :
              /\ series.result[i] = series.values[i]
              /\ series.values[i] = PyNone
                 \/ native_dtype(series.values[i].kind) = series.dtype
        /\ pc = "failed" =>
              /\ series.error = "SchemaError"
              /\ NextValue # PyNone
              /\ native_dtype(NextValue.kind) # series.dtype

C21_Witness ==
    /\ pc = "failed"
    /\ series.given /\ series.strict
    /\ series.dtype = Int64
    /\ series.values = <<PyVal("int", "1"), PyVal("str", "xyz")>>
    /\ series.result = <<PyVal("int", "1")>>
    /\ series.error = "SchemaError"

\* C22: in lenient mode with an explicit dtype the construction never
\* raises; the result has one element per value, in order, each the value,
\* its conversion or null; a value without conversion ('xyz' for Int64, a
\* boolean for Date, a date for Boolean) becomes null and changes no other
\* element.
C22_LenientNulls ==
    (series.given /\ ~series.strict) =>
        /\ pc # "failed" /\ series.error = ""
        /\ pc = "built" => Len(series.result) = Len(series.values)
        /\ \A i \in 1..Len(series.result) :
              LET x == series.values[i]
                  y == series.result[i]
              IN /\ y \in {x, PyNone, cast(x, series.dtype)}
                 /\ (x # PyNone /\ native_dtype(x.kind) = series.dtype) => y = x
                 /\ (x = PyVal("str", "xyz") /\ series.dtype = Int64) => y = PyNone
                 /\ (x.kind = "bool" /\ series.dtype = Date) => y = PyNone
                 /\ (x.kind = "date" /\ series.dtype = Boolean) => y = PyNone
                 /\ (x.kind = "int" /\ series.dtype = Float64) => y \notin {x, PyNone}
                 /\ \A j \in 1..Len(series.result) :
                       series.values[j] = x => series.result[j] = y

C22_Witness ==
    /\ pc = "built"
    /\ series.given /\ ~series.strict
    /\ series.dtype = Int64
    /\ series.values = <<PyVal("str", "xyz"), PyVal("float", "2.5")>>
    /\ series.result = <<PyNone, cast(PyVal("float", "2.5"), Int64)>>

\* the non-null classes of the values
C23_Kinds == {series.values[i].kind : i \in 1..Len(series.values)} \ {"NoneType"}

\* the promotion lattice of the claim: Boolean below Int below Float, Date
\* below Datetime
C23_ClaimLattice ==
    {<<"bool", "int">>, <<"int", "float">>, <<"bool", "float">>,
     <<"date", "datetime">>}

\* the lattice with text above the numbers
C23_TextLattice ==
    C23_ClaimLattice
    \cup {<<"bool", "str">>, <<"int", "str">>, <<"float", "str">>}

\* the kinds that are at or above every kind of the values
C23_Bounds(lattice) ==
    {u \in C23_Kinds : \A k \in C23_Kinds : k = u \/ <<k, u>> \in lattice}

\* the statement of C23 under a promotion lattice
C23_Statement(lattice) ==
    (~series.given /\ pc \in {"typed", "built", "failed"} /\ C23_Kinds # {}) =>
        /\ ~series.strict =>
              /\ pc # "failed"
              /\ C23_Bounds(lattice) # {} =>
                    \E u \in C23_Bounds(lattice) : series.dtype = native_dtype(u)
              /\ C23_Bounds(lattice) = {} =>
                    /\ series.dtype = Object
                    /\ \A i \in 1..Len(series.result) :
                          series.result[i] = series.values[i]
        /\ series.strict =>
              /\ pc = "built" => Cardinality(C23_Kinds) = 1
              /\ pc = "failed" => series.error = "SchemaError"

\* C23 as claimed: with no dtype and lenient mode the dtype is the narrowest
\* common type under the lattice Boolean below Int below Float, Date below
\* Datetime, and Object with the values unchanged when there is none; in
\* strict mode a sequence mixing kinds raises SchemaError.
C23_Original == C23_Statement(C23_ClaimLattice)

\* C23 as amended: the same with text above Boolean, Int and Float in the
\* lattice.
C23_CommonType == C23_Statement(C23_TextLattice)

C23_Witness ==
    /\ pc = "built"
    /\ ~series.given /\ ~series.strict
    /\ series.values = <<PyVal("int", "1"), PyVal("bytes", "d")>>
    /\ series.dtype = Object
    /\ series.result = series.values

\* the type name as the rules see it: str.upper() of the caller's name
C24_Name == upper(name)

\* C24: a type name that starts with DATETIME or TIMESTAMP and ends with
\* '[D]' is not classified as Datetime.
C24_DayUnitNotDatetime ==
    (/\ pc = "classified"
     /\ startswith(C24_Name, "DATETIME") \/ startswith(C24_Name, "TIMESTAMP")
     /\ endswith(C24_Name, "[D]")) =>
        ~(outcome.exc = "" /\ outcome.val.base = "Datetime")

\* C25: a type name that starts or ends with ARRAY, LIST or '[]', several
\* trailing '[]' included, gives List(inner) or no match (None, or
\* ValueError when raise_unmatched is set), never a non-list type.
C25_ArrayOrNoMatch ==
    (pc = "classified" /\ is_array(upper(name))) =>
        \/ outcome.exc = "" /\ outcome.val.base \in {"List", "None"}
        \/ outcome.exc = "ValueError" /\ raise_unmatched

\* every call on the stack but the outermost is on a string strictly
\* shorter than its caller's: than the caller's argument as passed, or
\* than that argument in upper case
C26_CallsShorter(in_upper_case) ==
    \A i \in 2..Len(frames) :
        Len(frames[i].value) <
            Len(IF in_upper_case THEN upper(frames[i - 1].value)
                ELSE frames[i - 1].value)

\* the depth of the recursion is bounded by the length of the input name,
\* and a call that has not returned has a step to take
C26_DepthBounded ==
    /\ Len(frames) < MaxDepth /\ Len(frames) <= Len(name) + 1
    /\ pc = "call" => CanStep

\* C26 as claimed, its middle clause: each recursive call of the array rule
\* is on a string strictly shorter than the one being classified.
C26_Original == C26_CallsShorter(FALSE)

\* C26 as amended: the function terminates on every input; each recursive
\* call of the array rule is on a string strictly shorter than the
\* upper-cased name being classified, so the depth is bounded by the length
\* of the name.
C26_Terminates ==
    /\ [](C26_CallsShorter(TRUE) /\ C26_DepthBounded)
    /\ <>(pc = "classified")

C26_Witness ==
    /\ name = "LIST OF LIST OF INT"
    /\ Len(frames) = 3
    /\ frames[2].value = "LISTINT"
    /\ frames[3].value = "INT"

\* the batches the cursor returns before its first empty one
RECURSIVE C27_NonEmptyPrefix(_)
C27_NonEmptyPrefix(batches) ==
    IF batches = <<>> \/ Head(batches) = <<>> THEN <<>>
    ELSE <<Head(batches)>> \o C27_NonEmptyPrefix(Tail(batches))

\* the rows of a batch, whatever sequence type carries them
C27_Ids(batch) == [i \in 1..Len(batch) |-> batch[i].id]

\* the generator has yielded the first n batches of the cursor, each once
\* and in order
C27_YieldedFirst(n) ==
    /\ Len(gen.yielded) = n
    /\ \A i \in 1..n : C27_Ids(gen.yielded[i]) = C27_Ids(gen.cursor[i])

\* C27: each non-empty batch the cursor returns before its first empty
\* batch is yielded exactly once and in order; the iteration stops at the
\* first empty batch without calling the fetch method again; and it
\* terminates, the cursor returning an empty batch in the end.
C27_BatchesInOrder ==
    LET expected == Len(C27_NonEmptyPrefix(gen.cursor))
    IN /\ [](/\ gen.nfetch <= expected + 1
             /\ gen.at = "fetch" => C27_YieldedFirst(gen.nfetch)
             /\ gen.at = "yield" => C27_YieldedFirst(gen.nfetch - 1)
             /\ gen.at = "done" =>
                   gen.nfetch = expected + 1 /\ C27_YieldedFirst(expected))
       /\ <>[](pc = "exhausted" /\ gen.nfetch = expected + 1)

C27_Witness ==
    /\ pc = "exhausted"
    /\ gen.fetcher = "_fetchmany_rows"
    /\ gen.cursor = <<<<Row("Row", 2)>>, <<>>, <<Row("tuple", 1)>>>>
    /\ gen.yielded = <<<<Row("tuple", 2)>>>>
    /\ gen.nfetch = 2

\* C28: with select_queries_only a str query whose first keyword, comments
\* removed, is one of ALTER, ANALYZE, CREATE, DELETE, DROP, INSERT, REPLACE,
\* UPDATE, UPSERT, USE, VACUUM in any letter case is refused with
\* UnsuitableSQLError before the cursor's execute method is called, and the
\* result of a fresh executor stays unset.
C28_WriteQueriesRefused ==
    (/\ call.op = "execute"
     /\ call.select_queries_only
     /\ call.query.is_str
     /\ upper(query_type(call.query.text)) \in INVALID_QUERY_TYPES) =>
        /\ call.error = "UnsuitableSQLError"
        /\ ~call.executed
        /\ call.n = 1 => cx.result = "None"

\* the native classes _map_py_type_to_dtype recognises directly
C29_Natives == {PyClass(NATIVE_TYPES[i]) : i \in 1..Len(NATIVE_TYPES)}

\* C29: for every native Python type t that _map_py_type_to_dtype
\* recognises directly, mapping t to its logical type and back with
\* dtype_to_py_type succeeds and returns t.
C29_NativeRoundTrip ==
    (pc = "mapped_back" /\ arg \in C29_Natives) =>
        outcome = [exc |-> "", val |-> arg]

\* C30: reading rows through to_polars / _from_rows leaves the mapping the
\* caller passed as schema_overrides unchanged, whether it is empty or not:
\* the inferred dtypes go to a separate mapping.
C30_CallerMappingUntouched ==
    pc \in {"loop", "raised", "returned"} => caller_mapping = user_overrides

====
